---- MODULE Spec2Model ----
(***************************************************************************)
(* CenProteo: essential-protein ranking over a PPI network.                *)
(* A state-machine model of cenproteo/modern (TGSO, JDC, TEO): the graph   *)
(* and feature stores an instance holds after construction, the edge       *)
(* weights, the LSG aggregation and the damped propagation of              *)
(* TGSO.calculate, the edge-sum loops of JDC.calculate and TEO.calculate,  *)
(* and the ranking each of them stores and returns.                        *)
(*                                                                         *)
(* Numbers are exact rationals <<numerator, denominator>> in lowest terms  *)
(* with a positive denominator, together with the three non-finite floats  *)
(* inf = <<1, 0>>, -inf = <<-1, 0>> and nan = <<>>; every input table is   *)
(* chosen so that each Pearson correlation it yields is rational.          *)
(***************************************************************************)
EXTENDS Integers, Sequences, FiniteSets, TLC

\* ------------------------------------------------------------------------
\* Bounds of the model
\* ------------------------------------------------------------------------
\* max_iter ranges over 0..MaxIterBound
MaxIterBound == 2
\* calculate() is invoked at most MaxRuns times on one instance
MaxRuns == 2

\* ------------------------------------------------------------------------
\* Exact rational arithmetic (the model of Python's float arithmetic)
\* ------------------------------------------------------------------------
RECURSIVE GCD(_, _)
GCD(a, b) == IF b = 0 THEN a ELSE GCD(b, a % b)

IAbs(x) == IF x < 0 THEN -x ELSE x

\* n/d in lowest terms, d > 0
Rat(n, d) ==
    LET s == IF d < 0 THEN -1 ELSE 1
        g == GCD(IAbs(n), IAbs(d))
    IN  <<(s * n) \div g, (s * d) \div g>>

RZero == <<0, 1>>
ROne == <<1, 1>>
RInt(k) == <<k, 1>>
\* float("inf"), -float("inf"), float("nan")
Inf == <<1, 0>>
NegInf == <<-1, 0>>
FNaN == <<>>
\* np.isfinite(x)
IsFinite(x) == x # FNaN /\ x[2] # 0

\* x + y: nan is contagious, inf + (-inf) is nan
RAdd(x, y) ==
    IF x = FNaN \/ y = FNaN THEN FNaN
    ELSE IF x[2] = 0 THEN (IF y[2] = 0 /\ y # x THEN FNaN ELSE x)
    ELSE IF y[2] = 0 THEN y
    ELSE LET g == GCD(x[2], y[2])
             l == (x[2] \div g) * y[2]
         IN  Rat(x[1] * (l \div x[2]) + y[1] * (l \div y[2]), l)

RNeg(x) == IF x = FNaN THEN FNaN ELSE <<-x[1], x[2]>>
RSub(x, y) == RAdd(x, RNeg(y))

\* x * y: nan is contagious, 0 * inf is nan
RMul(x, y) ==
    IF x = FNaN \/ y = FNaN THEN FNaN
    ELSE IF x[2] = 0 \/ y[2] = 0
    THEN (IF x[1] = 0 \/ y[1] = 0 THEN FNaN
          ELSE IF (x[1] > 0) = (y[1] > 0) THEN Inf ELSE NegInf)
    ELSE LET g1 == GCD(IAbs(x[1]), y[2])
             g2 == GCD(IAbs(y[1]), x[2])
             a1 == IF g1 = 0 THEN 1 ELSE g1
             a2 == IF g2 = 0 THEN 1 ELSE g2
         IN  Rat((x[1] \div a1) * (y[1] \div a2), (x[2] \div a2) * (y[2] \div a1))

\* x / y; y # 0 is the caller's obligation (Python raises ZeroDivisionError)
RDiv(x, y) == RMul(x, Rat(y[2], y[1]))

\* comparisons, over the least common denominator; every comparison with
\* nan is false
RLt(x, y) ==
    IF x = FNaN \/ y = FNaN THEN FALSE
    ELSE IF x[2] = 0 \/ y[2] = 0
    THEN x # y /\ (x = NegInf \/ y = Inf)
    ELSE LET g == GCD(x[2], y[2])
         IN  x[1] * (y[2] \div g) < y[1] * (x[2] \div g)
RLe(x, y) ==
    IF x = FNaN \/ y = FNaN THEN FALSE
    ELSE IF x[2] = 0 \/ y[2] = 0
    THEN x = y \/ x = NegInf \/ y = Inf
    ELSE LET g == GCD(x[2], y[2])
         IN  x[1] * (y[2] \div g) <= y[1] * (x[2] \div g)
RAbs(x) == IF x = FNaN THEN FNaN ELSE <<IAbs(x[1]), x[2]>>
RMin(x, y) == IF RLe(x, y) THEN x ELSE y

\* the integer square root of a perfect square
ISqrt(n) == CHOOSE k \in 0..n : k * k = n

\* ------------------------------------------------------------------------
\* Python values
\* ------------------------------------------------------------------------
\* None, and a loaded value
None == [some |-> FALSE]
Some(v) == [some |-> TRUE, val |-> v]

\* a table cell: NaN is the empty tuple, the number k is <<k>>
NaN == <<>>
Num(k) == <<k>>

Range(s) == {s[k] : k \in 1..Len(s)}
Contains(s, x) == \E k \in 1..Len(s) : s[k] = x
EmptyDict == <<>>
\* d[k] = v on a dict (a function whose domain is its key set)
DictSet(d, k, v) == [x \in (DOMAIN d) \cup {k} |-> IF x = k THEN v ELSE d[x]]
\* d.get(k, default)
DictGet(d, k, default) == IF k \in DOMAIN d THEN d[k] ELSE default

\* the order of Python's string comparison on the protein identifiers used
ProteinOrder == <<"A", "B", "C", "D", "X">>
OrdOf(p) == CHOOSE k \in 1..Len(ProteinOrder) : ProteinOrder[k] = p
\* tuple(sorted((u, v)))
\* variant: the key keeps the order of its arguments
OrderedKey(u, v) == <<u, v>>
SortedKey(u, v) == IF OrdOf(u) <= OrdOf(v) THEN <<u, v>> ELSE <<v, u>>

\* ------------------------------------------------------------------------
\* Input tables (what pandas.read_csv hands to the constructors)
\* ------------------------------------------------------------------------
Half == <<1, 2>>
\* a row of the PPI table: Protein A, Protein B and the three GO similarities
PpiRow(a, b, bp, mf, cc) == [A |-> a, B |-> b, BP |-> bp, MF |-> mf, CC |-> cc]
Edge(a, b) == PpiRow(a, b, ROne, Half, RZero)

PpiSingle == <<Edge("A", "B")>>
PpiPath == <<Edge("A", "B"), PpiRow("C", "B", Half, Half, Half)>>
PpiTriangle == <<Edge("A", "B"), Edge("B", "C"), PpiRow("C", "A", Half, RZero, ROne)>>
PpiPendant == <<Edge("B", "A"), Edge("B", "C"), Edge("A", "C"), Edge("C", "D")>>
PpiDiamond ==
    <<Edge("A", "B"), Edge("A", "C"), Edge("A", "D"), Edge("B", "C"),
      PpiRow("D", "B", NaN, ROne, Half)>>
PpiSelfLoop == <<Edge("A", "A"), Edge("A", "B"), Edge("B", "C")>>
\* the same pair twice, in both orientations, with different similarities
PpiBothWays ==
    <<PpiRow("B", "A", ROne, ROne, ROne), PpiRow("A", "B", Half, RZero, Half),
      Edge("B", "D")>>
PpiTwoParts == <<Edge("D", "C"), Edge("A", "B")>>
\* a table with a header and no rows
PpiEmpty == <<>>
PpiTables ==
    {PpiEmpty, PpiSingle, PpiPath, PpiTriangle, PpiPendant, PpiDiamond, PpiSelfLoop,
     PpiBothWays, PpiTwoParts}

\* the expression table: column names and one row of cells per protein
ExprMixed ==
    [cols |-> <<"t1", "t2", "t3">>,
     rows |-> [p \in {"A", "B", "C", "D"} |->
        CASE p = "A" -> <<Num(1), Num(0), Num(0)>>
          [] p = "B" -> <<Num(1), Num(1), Num(0)>>
          [] p = "C" -> <<Num(1), Num(1), Num(1)>>
          [] p = "D" -> <<NaN, Num(0), Num(1)>>]]
ExprTables == {None, Some(ExprMixed)}
\* a table with the summary columns at the end, and one about another protein
ExprActive ==
    [cols |-> <<"t1", "t2", "t3", "Mean", "STD">>,
     rows |-> [p \in {"A", "B", "C", "D"} |->
        CASE p = "A" -> <<Num(9), Num(9), Num(0), Num(6), Num(5)>>
          [] p = "B" -> <<Num(0), Num(9), Num(0), Num(3), Num(5)>>
          [] p = "C" -> <<Num(0), Num(0), Num(9), Num(3), Num(5)>>
          [] p = "D" -> <<NaN, Num(0), Num(9), Num(4), Num(6)>>]]
ExprOther ==
    [cols |-> <<"t1", "t2">>,
     rows |-> [p \in {"X"} |-> <<Num(1), Num(2)>>]]
\* JDC.__init__ raises without an expression table
JdcExprTables == {Some(ExprActive), Some(ExprOther)}

\* the localization table: rows of <<protein, label>>
LocMixed == <<<<"A", "n">>, <<"A", "c">>, <<"B", "n">>, <<"C", "m">>, <<"X", "c">>>>
LocTables == {None, Some(LocMixed)}

\* the orthology table as loaded: protein -> O_score
OrthoFirst == [p \in {"A", "B", "C"} |-> IF p = "A" THEN ROne ELSE RZero]
OrthoAll ==
    [p \in {"A", "B", "C", "D", "X"} |->
        CASE p = "A" -> ROne [] p = "B" -> RInt(2) [] p = "C" -> ROne
          [] p = "D" -> RInt(3) [] p = "X" -> RInt(5)]
OrthoTables == {Some(OrthoFirst), Some(OrthoAll)}

\* the parameters alpha, tol of TGSO.__init__
Alphas == {RZero, Half, ROne}
Tols == {RZero, <<1, 4>>, RInt(2)}

\* ------------------------------------------------------------------------
\* The graph (networkx.Graph): nodes in insertion order, adjacency lists in
\* insertion order; a self-loop u-u puts u in its own adjacency list
\* ------------------------------------------------------------------------
EmptyGraph == [nodes |-> <<>>, adj |-> EmptyDict]

add_node(G, u) ==
    IF Contains(G.nodes, u) THEN G
    ELSE [nodes |-> Append(G.nodes, u), adj |-> DictSet(G.adj, u, <<>>)]

add_edge(G, u, v) ==
    LET G1 == add_node(add_node(G, u), v)
        au == IF Contains(G1.adj[u], v) THEN G1.adj[u] ELSE Append(G1.adj[u], v)
        a1 == DictSet(G1.adj, u, au)
        av == IF Contains(a1[v], u) THEN a1[v] ELSE Append(a1[v], u)
    IN  [nodes |-> G1.nodes, adj |-> DictSet(a1, v, av)]

RECURSIVE from_pandas_edgelist(_, _)
from_pandas_edgelist(rows, k) ==
    IF k = 0 THEN EmptyGraph
    ELSE add_edge(from_pandas_edgelist(rows, k - 1), rows[k].A, rows[k].B)

\* ModernBase._load_graph: self-loops stay in the graph
ModernBase_load_graph(rows) == from_pandas_edgelist(rows, Len(rows))

\* graph.neighbors(u) as a set, graph.degree(u) (a self-loop counts twice)
neighbors(G, u) == Range(G.adj[u])
degree(G, u) == Len(G.adj[u]) + (IF Contains(G.adj[u], u) THEN 1 ELSE 0)
\* graph.edges(): each edge once, from the endpoint that comes first in the
\* node order, in adjacency order
RECURSIVE SeqConcat(_, _)
SeqConcat(f, k) == IF k = 0 THEN <<>> ELSE SeqConcat(f, k - 1) \o f[k]
NodePos(G, u) == CHOOSE k \in 1..Len(G.nodes) : G.nodes[k] = u
edges(G) ==
    SeqConcat(
        [k \in 1..Len(G.nodes) |->
            LET u == G.nodes[k]
                later == SelectSeq(G.adj[u], LAMBDA v : NodePos(G, v) >= k)
            IN  [j \in 1..Len(later) |-> <<u, later[j]>>]],
        Len(G.nodes))

\* ------------------------------------------------------------------------
\* State
\* ------------------------------------------------------------------------
VARIABLES
    mode,                 \* which class the instance is: "TGSO", "JDC", "TEO"
    pc,                   \* where the instance is in calculate()
    graph,                \* self.graph
    gene_expression_data, \* self.gene_expression_data (None when not loaded)
    localization_data,    \* self.localization_data: protein -> set of labels
    loc_counts,           \* self.loc_counts
    total_loc_proteins,   \* self.total_loc_proteins
    sub_scores,           \* self.sub_scores
    s_scores,             \* self.s_scores
    orthology_data,       \* self.orthology_data
    alpha, max_iter, tol, \* self.alpha, self.max_iter, self.tol
    results,              \* self.results (None until a calculate() finishes)
    ret,                  \* what the last calculate() returned
    log,                  \* the signals printed by the current calculate()
    runs,                 \* how many times calculate() has been entered
    nodes, cache, lsg_scores, total_lsg, total_lsg_norm,
    P0, P, P_new, P_j_values, iter_time, iteration, max_diff, i,
    history,              \* per finished run of TGSO: the final P and iter_time
    go_similarity_data,   \* TEO: self.go_similarity_data
    go_term,              \* TEO: the go_term argument of the current calculate()
    scores,               \* jdc_scores / teo_scores
    active_profile,       \* JDC: protein -> set of active time points
    edge_cache,           \* JDC: ecc_cache; TEO: pcc_cache
    edge_list,            \* list(self.graph.edges()) of the running loop
    edge_idx              \* position of the loop in edge_list

tgsoLocals ==
    <<nodes, cache, lsg_scores, total_lsg, total_lsg_norm, P0, P, P_new,
      P_j_values, iter_time, iteration, max_diff, i>>
edgeLocals ==
    <<go_term, scores, active_profile, edge_cache, edge_list, edge_idx>>
instance ==
    <<mode, graph, gene_expression_data, localization_data, loc_counts,
      total_loc_proteins, sub_scores, s_scores, orthology_data, alpha,
      max_iter, tol, go_similarity_data>>
vars ==
    <<instance, pc, results, ret, log, runs, tgsoLocals, history, edgeLocals>>

RECURSIVE SumInts(_, _)
SumInts(f, S) ==
    IF S = {} THEN 0
    ELSE LET x == CHOOSE y \in S : TRUE IN f[x] + SumInts(f, S \ {x})

RECURSIVE SumRats(_, _)
SumRats(f, S) ==
    IF S = {} THEN RZero
    ELSE LET x == CHOOSE y \in S : TRUE IN RAdd(f[x], SumRats(f, S \ {x}))

\* the elements of a set of proteins as a sequence
SetToSeq(S) == SelectSeq(ProteinOrder, LAMBDA p : p \in S)

\* ------------------------------------------------------------------------
\* TGSO: loading (cenproteo/modern/tgso.py)
\* ------------------------------------------------------------------------
\* one row of the loop of _load_localization_data; acc = [dict, counts, seen]
LoadLocRow(acc, row) ==
    LET protein == row[1]
        location == row[2]
        d == DictSet(acc.dict, protein,
                     DictGet(acc.dict, protein, {}) \cup {location})
    IN  IF protein \in acc.seen
        THEN [acc EXCEPT !.dict = d]
        ELSE [dict |-> d,
              counts |-> DictSet(acc.counts, location,
                                 DictGet(acc.counts, location, 0) + 1),
              seen |-> acc.seen \cup {protein}]

RECURSIVE LoadLocRows(_, _)
LoadLocRows(rows, k) ==
    IF k = 0 THEN [dict |-> EmptyDict, counts |-> EmptyDict, seen |-> {}]
    ELSE LoadLocRow(LoadLocRows(rows, k - 1), rows[k])

\* TGSO._load_localization_data: (localization_data, loc_counts, total)
TGSO_load_localization_data(table) ==
    IF ~table.some THEN [data |-> None, counts |-> None, total |-> 0]
    ELSE LET acc == LoadLocRows(table.val, Len(table.val))
         IN  [data |-> Some(acc.dict), counts |-> Some(acc.counts),
              total |-> SumInts(acc.counts, DOMAIN acc.counts)]

\* TGSO._precalculate_localization_scores: (sub_scores, s_scores)
TGSO_precalculate_localization_scores(G, loc) ==
    IF ~loc.data.some \/ loc.total = 0
    THEN [sub |-> EmptyDict, s |-> EmptyDict]
    ELSE LET sub == [l \in DOMAIN loc.counts.val |->
                        Rat(loc.counts.val[l], loc.total)]
             todo == Range(G.nodes) \cap DOMAIN loc.data.val
         IN  [sub |-> sub,
              s |-> [u \in todo |->
                        SumRats([l \in loc.data.val[u] |-> DictGet(sub, l, RZero)],
                                loc.data.val[u])]]

\* ------------------------------------------------------------------------
\* TGSO: edge weights
\* ------------------------------------------------------------------------
\* Pearson correlation of the cells xs, ys at the positions idx (numpy
\* corrcoef): Sxy / sqrt(Sxx * Syy) with S the n-fold centred sums
CellSum(xs, ys, idx) == SumInts([k \in idx |-> xs[k][1] * ys[k][1]], idx)
Ones(xs) == [k \in DOMAIN xs |-> Num(1)]
Sxy(xs, ys, idx) ==
    Cardinality(idx) * CellSum(xs, ys, idx)
        - CellSum(xs, Ones(xs), idx) * CellSum(ys, Ones(ys), idx)
Pearson(xs, ys, idx) ==
    LET num == Sxy(xs, ys, idx)
        den == ISqrt(Sxy(xs, xs, idx) * Sxy(ys, ys, idx))
    IN  Rat(num, den)

\* np.std(x) == 0 in float64.  The mean of a constant vector is not always
\* the constant: 0.1 + 0.1 + 0.1 is 0.30000000000000004 and a third of it is
\* 0.10000000000000002, so that np.std([0.1, 0.1, 0.1]) is 2^-56, not 0.
\* Cells <<k>> are integers, whose sums and means are exact; the cell
\* <<1, 10>> is 0.1.
InexactMean(data, mask) ==
    /\ Cardinality(mask) = 3
    /\ \A k \in mask : data[k] = <<1, 10>>
StdIsZero(data, mask) == Sxy(data, data, mask) = 0 /\ ~InexactMean(data, mask)

\* np.corrcoef(x, y)[0, 1], clipped to [-1, 1]: two constant vectors with an
\* inexact mean have equal deviations from it and correlate with 1.0; the
\* deviations of the other vectors of the model sum to 0
corrcoef(xs, ys, idx) ==
    IF Sxy(xs, xs, idx) = 0 /\ Sxy(ys, ys, idx) = 0 THEN ROne
    ELSE IF Sxy(xs, xs, idx) = 0 \/ Sxy(ys, ys, idx) = 0 THEN RZero
    ELSE Pearson(xs, ys, idx)

\* TGSO._calculate_pcc: the absolute correlation over every column of the
\* two rows at which both cells are numbers
TGSO_calculate_pcc(u, v) ==
    IF \/ ~gene_expression_data.some
       \/ u \notin DOMAIN gene_expression_data.val.rows
       \/ v \notin DOMAIN gene_expression_data.val.rows
    THEN RZero
    ELSE LET data_u == gene_expression_data.val.rows[u]
             data_v == gene_expression_data.val.rows[v]
             valid_mask == {k \in DOMAIN data_u :
                               data_u[k] # NaN /\ data_v[k] # NaN}
         IN  IF Cardinality(valid_mask) <= 1 THEN RZero
             ELSE IF \/ StdIsZero(data_u, valid_mask)
                     \/ StdIsZero(data_v, valid_mask)
                  THEN RZero
                  ELSE RAbs(corrcoef(data_u, data_v, valid_mask))

\* variant: the aggregation degree over the degree of its first argument
TGSO_calculate_adn_first(u, v) ==
    LET common_neighbors == neighbors(graph, u) \cap neighbors(graph, v)
        degree_u == degree(graph, u)
    IN  IF degree_u = 0 THEN RZero
        ELSE Rat(Cardinality(common_neighbors) + 1, degree_u)

\* variant: the aggregation degree without the + 1 of Eq 1
TGSO_calculate_adn_plain(u, v) ==
    LET common_neighbors == neighbors(graph, u) \cap neighbors(graph, v)
        degree_u == degree(graph, u)
        degree_v == degree(graph, v)
        min_degree == IF degree_u <= degree_v THEN degree_u ELSE degree_v
    IN  IF min_degree = 0 THEN RZero
        ELSE Rat(Cardinality(common_neighbors), min_degree)

\* TGSO._calculate_adn
TGSO_calculate_adn(u, v) ==
    LET common_neighbors == neighbors(graph, u) \cap neighbors(graph, v)
        degree_u == degree(graph, u)
        degree_v == degree(graph, v)
        min_degree == IF degree_u <= degree_v THEN degree_u ELSE degree_v
    IN  IF min_degree = 0 THEN RZero
        ELSE Rat(Cardinality(common_neighbors) + 1, min_degree)

\* pcc_cache.get((u, v)), computing and storing both orientations on a miss
PccLookup(u, v, pcc_cache) ==
    IF <<u, v>> \in DOMAIN pcc_cache
    THEN [val |-> pcc_cache[<<u, v>>], pcc |-> pcc_cache]
    ELSE LET pcc_uv == TGSO_calculate_pcc(u, v)
         IN  [val |-> pcc_uv,
              pcc |-> DictSet(DictSet(pcc_cache, <<u, v>>, pcc_uv),
                              <<v, u>>, pcc_uv)]

\* the loop of _calculate_cen over the common neighbours ws[1..k]
RECURSIVE CenLoop(_, _, _, _, _)
CenLoop(u, v, ws, k, start) ==
    IF k = 0 THEN start
    ELSE LET before == CenLoop(u, v, ws, k - 1, start)
             uw == PccLookup(u, ws[k], before.pcc)
             vw == PccLookup(v, ws[k], uw.pcc)
         IN  [val |-> RAdd(before.val, RMul(uw.val, vw.val)), pcc |-> vw.pcc]

\* TGSO._calculate_cen: the CEN score and the PCC cache it leaves
TGSO_calculate_cen(u, v, pcc_cache) ==
    LET uv == PccLookup(u, v, pcc_cache)
        ws == SetToSeq(neighbors(graph, u) \cap neighbors(graph, v))
    IN  CenLoop(u, v, ws, Len(ws), uv)

\* TGSO._calculate_cln
TGSO_calculate_cln(u, v) ==
    IF ~localization_data.some THEN RZero
    ELSE LET loc_u == DictGet(localization_data.val, u, {})
             loc_v == DictGet(localization_data.val, v, {})
             common_loc == loc_u \cap loc_v
             union_loc == loc_u \cup loc_v
         IN  IF loc_u = {} /\ loc_v = {} THEN RZero
             ELSE RDiv(RMul(Rat(Cardinality(common_loc), Cardinality(union_loc)),
                            RAdd(DictGet(s_scores, u, RZero),
                                 DictGet(s_scores, v, RZero))),
                       RInt(2))

\* one neighbour of the loop of _calculate_lsg; acc = [score, cache]
LsgStep(node, neighbor, acc) ==
    LET key == SortedKey(node, neighbor)
        c == acc.cache
        adn_val == IF key \in DOMAIN c.adn THEN c.adn[key]
                   ELSE TGSO_calculate_adn(node, neighbor)
        cln_val == IF key \in DOMAIN c.cln THEN c.cln[key]
                   ELSE TGSO_calculate_cln(node, neighbor)
        cen == IF key \in DOMAIN c.cen THEN [val |-> c.cen[key], pcc |-> c.pcc]
               ELSE TGSO_calculate_cen(node, neighbor, c.pcc)
    IN  [score |-> RAdd(acc.score, RMul(adn_val, RAdd(cln_val, cen.val))),
         cache |-> [pcc |-> cen.pcc,
                    adn |-> DictSet(c.adn, key, adn_val),
                    cen |-> DictSet(c.cen, key, cen.val),
                    cln |-> DictSet(c.cln, key, cln_val),
                    lsg |-> c.lsg]]

RECURSIVE LsgLoop(_, _, _)
LsgLoop(node, k, c) ==
    IF k = 0 THEN [score |-> RZero, cache |-> c]
    ELSE LsgStep(node, graph.adj[node][k], LsgLoop(node, k - 1, c))

\* TGSO._calculate_lsg: the LSG score of node and the cache it leaves
TGSO_calculate_lsg(node, c) ==
    IF node \in DOMAIN c.lsg THEN [score |-> c.lsg[node], cache |-> c]
    ELSE LET r == LsgLoop(node, Len(graph.adj[node]), c)
         IN  [score |-> r.score,
              cache |-> [r.cache EXCEPT !.lsg = DictSet(@, node, r.score)]]

EmptyCache ==
    [pcc |-> EmptyDict, adn |-> EmptyDict, cen |-> EmptyDict,
     cln |-> EmptyDict, lsg |-> EmptyDict]

\* ------------------------------------------------------------------------
\* TGSO.calculate: the propagation
\* ------------------------------------------------------------------------
\* TGSO._calculate_initial_vector_p0
\* variant: the prior is the orthology store itself
InitialVectorIsStore == orthology_data.val

\* TGSO._calculate_initial_vector_p0
TGSO_calculate_initial_vector_p0 ==
    [node \in Range(graph.nodes) |-> DictGet(orthology_data.val, node, RZero)]

\* PCIN(i, j) of Eq 8, as computed inside the double loop
Pcin(protein_i, protein_j) ==
    LET lsg_i == DictGet(lsg_scores, protein_i, RZero)
        lsg_j == DictGet(lsg_scores, protein_j, RZero)
    IN  IF protein_i = protein_j THEN RDiv(lsg_i, total_lsg_norm)
        ELSE RDiv(RMin(lsg_i, lsg_j), total_lsg_norm)

\* variant: the loop reads the scores already written in this round
PrevScoreGaussSeidel(protein_j) ==
    IF protein_j \in DOMAIN P_new THEN P_new[protein_j]
    ELSE DictGet(P_j_values, protein_j, RZero)

\* p_j_old: the score of protein_j read inside the inner loop
PrevScore(protein_j) == DictGet(P_j_values, protein_j, RZero)

\* the inner loop over nodes[1..k]: sum of pcin_ij * p_j_old
RECURSIVE SumPcinPj(_, _)
SumPcinPj(protein_i, k) ==
    IF k = 0 THEN RZero
    ELSE RAdd(SumPcinPj(protein_i, k - 1),
              RMul(Pcin(protein_i, nodes[k]),
                   PrevScore(nodes[k])))

\* variant: the restart term is added once per pair (i, j), inside the sum
NewScoreRestartPerPair(protein_i) ==
    RAdd(RMul(RSub(ROne, alpha), SumPcinPj(protein_i, Len(nodes))),
         RMul(alpha, SumRats(P0, DOMAIN P0)))

\* variant: with a degenerate normalizer a node keeps its own previous score
NewScoreSelfCarry(protein_i) ==
    LET carry == IF total_lsg = RZero THEN PrevScore(protein_i) ELSE RZero
        term1 == RMul(RSub(ROne, alpha),
                      RAdd(SumPcinPj(protein_i, Len(nodes)), carry))
        term2 == RMul(alpha, DictGet(P0, protein_i, RZero))
    IN  RAdd(term1, term2)

\* variant: the weights alpha and 1 - alpha are swapped
NewScoreWeightsSwapped(protein_i) ==
    LET term1 == RMul(alpha, SumPcinPj(protein_i, Len(nodes)))
        term2 == RMul(RSub(ROne, alpha), DictGet(P0, protein_i, RZero))
    IN  RAdd(term1, term2)

\* variant: the damping factor is alpha - 1
NewScoreSignFlipped(protein_i) ==
    LET term1 == RMul(RSub(alpha, ROne), SumPcinPj(protein_i, Len(nodes)))
        term2 == RMul(alpha, DictGet(P0, protein_i, RZero))
    IN  RAdd(term1, term2)

\* Eq 12: the new score of protein_i in the current round
NewScore(protein_i) ==
    LET term1 == RMul(RSub(ROne, alpha), SumPcinPj(protein_i, Len(nodes)))
        term2 == RMul(alpha, DictGet(P0, protein_i, RZero))
    IN  RAdd(term1, term2)

\* the orders DataFrame.sort_values(by="Score", ascending=False) may return:
\* the default sort kind is not stable, so ties may come in any order
RECURSIVE Perms(_)
Perms(S) ==
    IF S = {} THEN {<<>>}
    ELSE UNION {{<<x>> \o q : q \in Perms(S \ {x})} : x \in S}
\* variant: the sort is ascending
sort_values_ascending(score_of) ==
    {[columns |-> <<"Protein", "Score">>,
      rows |-> [k \in 1..Len(q) |-> <<q[k], score_of[q[k]]>>]] :
        q \in {r \in Perms(DOMAIN score_of) :
                \A k \in 1..(Len(r) - 1) : RLe(score_of[r[k]], score_of[r[k + 1]])}}
sort_values(score_of) ==
    {[columns |-> <<"Protein", "Score">>,
      rows |-> [k \in 1..Len(q) |-> <<q[k], score_of[q[k]]>>]] :
        q \in {r \in Perms(DOMAIN score_of) :
                \A k \in 1..(Len(r) - 1) : RLe(score_of[r[k + 1]], score_of[r[k]])}}

\* final_scores: a score that is nan or infinite becomes 0.0
final_scores(score_of) ==
    [k \in DOMAIN score_of |->
        IF IsFinite(score_of[k]) THEN score_of[k] ELSE RZero]

\* variant: df_scores.fillna(0) in place of dropna, so that no row is removed
fillna_zero(score_of) == final_scores(score_of)

\* df_scores.replace([inf, -inf], nan) followed by dropna(subset=["Score"]):
\* the rows whose score is nan or infinite are removed
dropna(score_of) ==
    [k \in {n \in DOMAIN score_of : IsFinite(score_of[n])} |-> score_of[k]]

Msg(m, n) == [msg |-> m, n |-> n]
\* the locals of calculate() after it returned
ResetLocals ==
    /\ nodes' = <<>>
    /\ cache' = EmptyCache
    /\ lsg_scores' = EmptyDict
    /\ total_lsg' = RZero
    /\ total_lsg_norm' = ROne
    /\ P0' = EmptyDict
    /\ P' = EmptyDict
    /\ P_new' = EmptyDict
    /\ P_j_values' = EmptyDict
    /\ iter_time' = 0
    /\ iteration' = 0
    /\ max_diff' = RZero
    /\ i' = 0
NoLocals ==
    /\ nodes = <<>>
    /\ cache = EmptyCache
    /\ lsg_scores = EmptyDict
    /\ total_lsg = RZero
    /\ total_lsg_norm = ROne
    /\ P0 = EmptyDict
    /\ P = EmptyDict
    /\ P_new = EmptyDict
    /\ P_j_values = EmptyDict
    /\ iter_time = 0
    /\ iteration = 0
    /\ max_diff = RZero
    /\ i = 0

NoEdgeLocals ==
    /\ go_term = "BP"
    /\ scores = EmptyDict
    /\ active_profile = EmptyDict
    /\ edge_cache = EmptyDict
    /\ edge_list = <<>>
    /\ edge_idx = 0

\* TGSO.__init__ on the tables read from the four files
\* TGSO.__init__ on the given files; the nodes of `isolated` are added to
\* the public graph attribute after construction.  Without orthology data
\* the constructor raises ValueError and there is no instance to call.
TGSO_init(ppi, isolated, expr, loc, ortho) ==
    LET G == ModernBase_load_graph(ppi)
        l == TGSO_load_localization_data(loc)
        sc == TGSO_precalculate_localization_scores(G, l)
    IN  /\ mode = "TGSO"
        /\ graph = IF isolated = <<>> THEN G ELSE add_node(G, isolated[1])
        /\ gene_expression_data = expr
        /\ localization_data = l.data
        /\ loc_counts = l.counts
        /\ total_loc_proteins = l.total
        /\ sub_scores = sc.sub
        /\ s_scores = sc.s
        /\ orthology_data = ortho
        /\ results = None
        /\ ret = None
        /\ log = IF ortho.some THEN <<>>
                 ELSE <<Msg("ValueError: Gene orthology data (O_score) is required", 0)>>
        /\ runs = 0
        /\ pc = IF ortho.some THEN "idle" ELSE "raised"
        /\ history = <<>>
        /\ NoLocals
        /\ go_similarity_data = None
        /\ NoEdgeLocals

InitTGSO ==
    \E ppi \in PpiTables, expr \in ExprTables, loc \in LocTables,
       ortho \in OrthoTables :
        /\ TGSO_init(ppi, <<>>, expr, loc, ortho)
        /\ alpha \in Alphas
        /\ max_iter \in 0..MaxIterBound
        /\ tol \in Tols

\* variant: the aborted call stores an empty ranking
TGSO_calculate_abort_stores ==
    /\ mode = "TGSO"
    /\ pc \in {"idle", "done"}
    /\ runs < MaxRuns
    /\ Len(graph.nodes) = 0 \/ ~orthology_data.some
    /\ runs' = runs + 1
    /\ log' = <<Msg("Error: Graph not loaded or empty.", 0)>>
    /\ results' = Some([columns |-> <<"Protein", "Score">>, rows |-> <<>>])
    /\ ret' = results'
    /\ pc' = "done"
    /\ UNCHANGED <<instance, edgeLocals, tgsoLocals, history>>

\* calculate() lines 410-415: a fatal precondition fails
TGSO_calculate_abort ==
    /\ mode = "TGSO"
    /\ pc \in {"idle", "done"}
    /\ runs < MaxRuns
    /\ Len(graph.nodes) = 0 \/ ~orthology_data.some
    /\ runs' = runs + 1
    /\ log' = <<Msg(IF Len(graph.nodes) = 0 THEN "Error: Graph not loaded or empty."
                    ELSE "Error: Orthology data not loaded.", 0)>>
    /\ ret' = None
    /\ pc' = "done"
    /\ UNCHANGED <<instance, edgeLocals, results, tgsoLocals, history>>

\* calculate() lines 417-426: the run starts with fresh caches
TGSO_calculate_start ==
    /\ mode = "TGSO"
    /\ pc \in {"idle", "done"}
    /\ runs < MaxRuns
    /\ Len(graph.nodes) # 0 /\ orthology_data.some
    /\ runs' = runs + 1
    /\ log' = <<>>
    /\ nodes' = graph.nodes
    /\ cache' = EmptyCache
    /\ lsg_scores' = EmptyDict
    /\ i' = 1
    /\ pc' = "lsg"
    /\ UNCHANGED <<instance, edgeLocals, results, ret, history, total_lsg, total_lsg_norm,
                   P0, P, P_new, P_j_values, iter_time, iteration, max_diff>>

\* variant: the edge engine is asked for every node, whatever its degree
TGSO_lsg_node_unguarded ==
    /\ pc = "lsg"
    /\ LET node == nodes[i]
           r == TGSO_calculate_lsg(node, cache)
       IN  /\ lsg_scores' = DictSet(lsg_scores, node, r.score)
           /\ cache' = r.cache
    /\ i' = i + 1
    /\ pc' = IF i = Len(nodes) THEN "total" ELSE "lsg"
    /\ UNCHANGED <<instance, edgeLocals, results, ret, log, runs, history, nodes, total_lsg,
                   total_lsg_norm, P0, P, P_new, P_j_values, iter_time,
                   iteration, max_diff>>

\* calculate() lines 427-432: the LSG score of nodes[i]
TGSO_lsg_node ==
    /\ pc = "lsg"
    /\ LET node == nodes[i]
           r == TGSO_calculate_lsg(node, cache)
       IN  IF degree(graph, node) > 0
           THEN /\ lsg_scores' = DictSet(lsg_scores, node, r.score)
                /\ cache' = r.cache
           ELSE /\ lsg_scores' = DictSet(lsg_scores, node, RZero)
                /\ cache' = cache
    /\ i' = i + 1
    /\ pc' = IF i = Len(nodes) THEN "total" ELSE "lsg"
    /\ UNCHANGED <<instance, edgeLocals, results, ret, log, runs, history, nodes, total_lsg,
                   total_lsg_norm, P0, P, P_new, P_j_values, iter_time,
                   iteration, max_diff>>

\* variant: the total is the normalizer even when it is 0
TotalLsgNormUnguarded(total) == total

\* total_lsg_norm: 1 when the total is 0
TotalLsgNorm(total) == IF total = RZero THEN ROne ELSE total

\* variant: a later run on the same instance starts from the stored results
InitialPWarm(p0) ==
    IF results.some
    THEN LET r == results.val.rows
         IN  [node \in Range(nodes) |->
                r[CHOOSE k \in 1..Len(r) : r[k][1] = node][2]]
    ELSE [node \in Range(nodes) |-> DictGet(p0, node, RZero)]

\* the score vector P a run starts from
InitialP(p0) == [node \in Range(nodes) |-> DictGet(p0, node, RZero)]

\* calculate() lines 438-458: the normalizer, P0 and the first P
TGSO_normalize ==
    /\ pc = "total"
    /\ LET total == SumRats(lsg_scores, DOMAIN lsg_scores)
           p0 == TGSO_calculate_initial_vector_p0
       IN  /\ total_lsg' = total
           /\ total_lsg_norm' = TotalLsgNorm(total)
           /\ log' = IF total = RZero
                     THEN Append(log, Msg("Warning: Total LSG score is zero.", 0))
                     ELSE log
           /\ P0' = p0
           /\ P' = InitialP(p0)
    /\ iter_time' = 0
    /\ iteration' = 0
    /\ pc' = "loop"
    /\ UNCHANGED <<instance, edgeLocals, results, ret, runs, history, nodes, cache,
                   lsg_scores, P_new, P_j_values, max_diff, i>>

\* variant: one round too many
LoopContinuesOffByOne == iteration <= max_iter

\* for iteration in range(self.max_iter): another round is due
LoopContinues == iteration < max_iter

\* variant: P is an alias of P0, so the prior follows the scores
TGSO_round_begin_aliased ==
    /\ pc = "loop"
    /\ LoopContinues
    /\ iter_time' = iter_time + 1
    /\ P_new' = EmptyDict
    /\ max_diff' = RZero
    /\ P_j_values' = [node_j \in Range(nodes) |-> DictGet(P, node_j, RZero)]
    /\ P0' = P
    /\ i' = 1
    /\ pc' = "node"
    /\ UNCHANGED <<instance, edgeLocals, results, ret, log, runs, history, nodes, cache,
                   lsg_scores, total_lsg, total_lsg_norm, P, iteration>>

\* calculate() lines 460-471: a round begins
TGSO_round_begin ==
    /\ pc = "loop"
    /\ LoopContinues
    /\ iter_time' = iter_time + 1
    /\ P_new' = EmptyDict
    /\ max_diff' = RZero
    /\ P_j_values' = [node_j \in Range(nodes) |-> DictGet(P, node_j, RZero)]
    /\ i' = 1
    /\ pc' = "node"
    /\ UNCHANGED <<instance, edgeLocals, results, ret, log, runs, history, nodes, cache,
                   lsg_scores, total_lsg, total_lsg_norm, P0, P, iteration>>

\* calculate() lines 473-503: the new score of nodes[i]
TGSO_update_node ==
    /\ pc = "node"
    /\ LET protein_i == nodes[i]
           p_i_new == NewScore(protein_i)
           diff == RAbs(RSub(p_i_new, DictGet(P, protein_i, RZero)))
       IN  /\ P_new' = DictSet(P_new, protein_i, p_i_new)
           /\ max_diff' = IF RLt(max_diff, diff) THEN diff ELSE max_diff
    /\ i' = i + 1
    /\ pc' = IF i = Len(nodes) THEN "check" ELSE "node"
    /\ UNCHANGED <<instance, edgeLocals, results, ret, log, runs, history, nodes, cache,
                   lsg_scores, total_lsg, total_lsg_norm, P0, P, P_j_values,
                   iter_time, iteration>>

\* variant: a round whose change equals the tolerance counts as converged
HasConvergedInclusive == RLe(max_diff, tol)

\* if max_diff < self.tol
HasConverged == RLt(max_diff, tol)

\* variant: on convergence the loop breaks before P is updated
NextPKeptOnBreak == IF HasConverged THEN P ELSE P_new

\* what the convergence check leaves in P (lines 511 and 514)
NextP == P_new

\* calculate() lines 505-514: the convergence check of the round
TGSO_convergence_check ==
    /\ pc = "check"
    /\ P' = NextP
    /\ IF HasConverged
       THEN /\ log' = Append(log, Msg("Converged", iter_time))
            /\ iteration' = iteration
            /\ pc' = "final"
       ELSE /\ log' = log
            /\ iteration' = iteration + 1
            /\ pc' = "loop"
    /\ UNCHANGED <<instance, edgeLocals, results, ret, runs, history, nodes, cache,
                   lsg_scores, total_lsg, total_lsg_norm, P0, P_new, P_j_values,
                   iter_time, max_diff, i>>

\* calculate() lines 516-519: the loop ran max_iter rounds without a break
TGSO_loop_exhausted ==
    /\ pc = "loop"
    /\ ~LoopContinues
    /\ log' = Append(log, Msg("Warning: Did not converge", max_iter))
    /\ pc' = "final"
    /\ UNCHANGED <<instance, edgeLocals, results, ret, runs, history, tgsoLocals>>

\* calculate() lines 521-536: the ranking is stored and returned, and the
\* locals of the call are gone
TGSO_finalize ==
    /\ pc = "final"
    /\ \E sorted_df \in sort_values(final_scores(P)) :
        /\ results' = Some(sorted_df)
        /\ ret' = Some(sorted_df)
    /\ history' = Append(history, [P |-> P, iter_time |-> iter_time])
    /\ pc' = "done"
    /\ ResetLocals
    /\ UNCHANGED <<instance, edgeLocals, log, runs>>

\* ------------------------------------------------------------------------
\* The legacy propagation (cenproteo/TGSO.py), run on the graph, LSG vector,
\* P0, alpha, max_iter and tol of the state
\* ------------------------------------------------------------------------
\* LSG_total = sum(LSG.values())
Legacy_LSG_total == SumRats(lsg_scores, DOMAIN lsg_scores)

\* PCIN inside the double loop of calculate_P
Legacy_PCIN(protein_i, protein_j) ==
    IF protein_i # protein_j
    THEN RDiv(RMin(lsg_scores[protein_i], lsg_scores[protein_j]), Legacy_LSG_total)
    ELSE RDiv(lsg_scores[protein_i], Legacy_LSG_total)

\* p_j = (1 - a) * PCIN * p2 + a * p0, with the score and prior of protein_j
Legacy_p_j(Pcur, protein_i, protein_j) ==
    LET p2 == DictGet(Pcur, protein_j, RZero)
        p0 == DictGet(P0, protein_j, RZero)
    IN  RAdd(RMul(RMul(RSub(ROne, alpha), Legacy_PCIN(protein_i, protein_j)), p2),
             RMul(alpha, p0))

\* one round of calculate_P: P_new[protein_i] is the sum of p_j over all nodes
Legacy_P_new(Pcur) ==
    [protein_i \in Range(graph.nodes) |->
        SumRats([protein_j \in Range(graph.nodes) |-> Legacy_p_j(Pcur, protein_i, protein_j)],
                Range(graph.nodes))]

\* diff = max(abs(P_new.get(protein, 0) - P.get(protein, 0)))
Legacy_diff(Pcur, Pnew) ==
    LET ds == {RAbs(RSub(Pnew[n], DictGet(Pcur, n, RZero))) : n \in Range(graph.nodes)}
    IN  CHOOSE d \in ds : \A e \in ds : RLe(e, d)

\* the loop of calculate_P after rounds_done rounds: a division by
\* LSG_total = 0 or by E = 0 raises ZeroDivisionError; on convergence the
\* loop breaks before P = P_new
RECURSIVE Legacy_loop(_, _)
Legacy_loop(Pcur, rounds_done) ==
    IF rounds_done >= max_iter
    THEN [P |-> Pcur, iter_time |-> rounds_done, raised |-> FALSE]
    ELSE IF Legacy_LSG_total = RZero \/ Len(edges(graph)) = 0
    THEN [P |-> Pcur, iter_time |-> rounds_done + 1, raised |-> TRUE]
    ELSE LET Pnew == Legacy_P_new(Pcur)
             E == Len(edges(graph))
         IN  IF RLt(RDiv(Legacy_diff(Pcur, Pnew), RInt(E)), tol)
             THEN [P |-> Pcur, iter_time |-> rounds_done + 1, raised |-> FALSE]
             ELSE Legacy_loop(Pnew, rounds_done + 1)

\* TGSO.calculate_P: the final vector and the number of rounds
Legacy_calculate_P == Legacy_loop(P0, 0)

\* ------------------------------------------------------------------------
\* JDC (cenproteo/modern/jdc.py)
\* ------------------------------------------------------------------------
\* str.lower() on the column names of the tables
Lower(col) ==
    CASE col = "Mean" -> "mean" [] col = "STD" -> "std" [] OTHER -> col

\* data_cols: the positions of the columns not named mean or std
JDC_data_cols(expr) ==
    SelectSeq([c \in 1..Len(expr.cols) |-> c],
              LAMBDA c : Lower(expr.cols[c]) \notin {"mean", "std"})

\* protein_expression[t] > threshold_g with threshold_g = mean + 2*std/(1+std^2),
\* decided on the variance V = std^2: for d = x - mean, d > 2*sqrt(V)/(1+V)
\* iff d > 0 and (V = 0 or d^2 * (1+V)^2 > 4*V)
AboveThreshold(x, mean, V) ==
    LET d == RSub(x, mean)
        onePlusV == RAdd(ROne, V)
    IN  /\ RLt(RZero, d)
        /\ V = RZero \/ RLt(RMul(RInt(4), V),
                            RMul(RMul(d, d), RMul(onePlusV, onePlusV)))

\* the active time points of one row: mean and sample standard deviation
\* skip NaN cells, a NaN deviation counts as 0, a NaN threshold is never
\* exceeded; the points are 0-based positions in data_cols
ActivePoints(row, data_cols) ==
    LET cells == [t \in 1..Len(data_cols) |-> row[data_cols[t]]]
        valid == {t \in DOMAIN cells : cells[t] # NaN}
        n == Cardinality(valid)
        sum == SumInts([t \in valid |-> cells[t][1]], valid)
        sumsq == SumInts([t \in valid |-> cells[t][1] * cells[t][1]], valid)
        mean == Rat(sum, n)
        V == IF n < 2 THEN RZero ELSE Rat(n * sumsq - sum * sum, n * (n - 1))
    IN  IF n = 0 THEN {}
        ELSE {t - 1 : t \in {x \in valid : AboveThreshold(RInt(cells[x][1]), mean, V)}}

\* calculate() lines 98-170: active_profile over the common proteins
JDC_active_profile(G, expr) ==
    [protein \in Range(G.nodes) \cap DOMAIN expr.rows |->
        ActivePoints(expr.rows[protein], JDC_data_cols(expr))]

\* JDC._calculate_ecc
JDC_calculate_ecc(u, v) ==
    LET common_neighbors == (neighbors(graph, u) \cap neighbors(graph, v)) \ {u, v}
        z_uv == Cardinality(common_neighbors)
        degree_u == degree(graph, u)
        degree_v == degree(graph, v)
        min_degree_minus_1 ==
            IF degree_u <= degree_v THEN degree_u - 1 ELSE degree_v - 1
    IN  IF min_degree_minus_1 <= 0 THEN RZero
        ELSE Rat(z_uv, min_degree_minus_1)

\* JDC._calculate_jaccard
JDC_calculate_jaccard(u, v, profile) ==
    LET profile_u == DictGet(profile, u, {})
        profile_v == DictGet(profile, v, {})
        intersection_size == Cardinality(profile_u \cap profile_v)
        union_size == Cardinality(profile_u \cup profile_v)
    IN  IF union_size = 0 THEN RZero
        ELSE Rat(intersection_size, union_size)

ZeroScores(G) == [node \in Range(G.nodes) |-> RZero]
\* pd.DataFrame(list(d.items()), columns=["Protein", "Score"]) of a dict
\* filled in node order
DataFrame(G, d) ==
    [columns |-> <<"Protein", "Score">>,
     rows |-> [c \in 1..Len(G.nodes) |-> <<G.nodes[c], d[G.nodes[c]]>>]]

\* the locals of the edge loops after calculate() returned
ResetEdgeLocals ==
    /\ go_term' = "BP"
    /\ scores' = EmptyDict
    /\ active_profile' = EmptyDict
    /\ edge_cache' = EmptyDict
    /\ edge_list' = <<>>
    /\ edge_idx' = 0

\* an instance of JDC or TEO has none of the stores of TGSO
NoTgsoData ==
    /\ localization_data = None
    /\ loc_counts = None
    /\ total_loc_proteins = 0
    /\ sub_scores = EmptyDict
    /\ s_scores = EmptyDict
    /\ orthology_data = None
    /\ alpha = RZero
    /\ max_iter = 0
    /\ tol = RZero
    /\ history = <<>>
    /\ NoLocals

\* JDC.__init__
\* JDC.__init__ on the given files
JDC_init(ppi, expr) ==
    /\ mode = "JDC"
    /\ graph = ModernBase_load_graph(ppi)
    /\ gene_expression_data = expr
    /\ go_similarity_data = None
    /\ results = None
    /\ ret = None
    /\ log = <<>>
    /\ runs = 0
    /\ pc = "idle"
    /\ NoTgsoData
    /\ NoEdgeLocals

InitJDC == \E ppi \in PpiTables, expr \in JdcExprTables : JDC_init(ppi, expr)

CommonProteins == Range(graph.nodes) \cap DOMAIN gene_expression_data.val.rows

\* calculate() lines 86-88: the graph is empty
JDC_calculate_abort ==
    /\ mode = "JDC"
    /\ pc \in {"idle", "done"}
    /\ runs < MaxRuns
    /\ Len(graph.nodes) = 0 \/ ~gene_expression_data.some
    /\ runs' = runs + 1
    /\ log' = <<Msg("Error: Graph and Gene Expression data must be loaded.", 0)>>
    /\ ret' = None
    /\ pc' = "done"
    /\ UNCHANGED <<instance, edgeLocals, results, tgsoLocals, history>>

\* calculate() lines 98-113: no protein of the graph has an expression row;
\* the unsorted frame is stored, a sorted copy is returned
JDC_calculate_no_overlap ==
    /\ mode = "JDC"
    /\ pc \in {"idle", "done"}
    /\ runs < MaxRuns
    /\ Len(graph.nodes) # 0 /\ gene_expression_data.some
    /\ CommonProteins = {}
    /\ runs' = runs + 1
    /\ log' = <<Msg("Warning: No overlap", 0)>>
    /\ results' = Some(DataFrame(graph, ZeroScores(graph)))
    /\ ret' \in {Some(df) : df \in sort_values(ZeroScores(graph))}
    /\ pc' = "done"
    /\ UNCHANGED <<instance, edgeLocals, tgsoLocals, history>>

\* calculate() lines 90-179: scores start at 0 and the active profiles are
\* computed
JDC_calculate_start ==
    /\ mode = "JDC"
    /\ pc \in {"idle", "done"}
    /\ runs < MaxRuns
    /\ Len(graph.nodes) # 0 /\ gene_expression_data.some
    /\ CommonProteins # {}
    /\ runs' = runs + 1
    /\ log' = <<>>
    /\ scores' = ZeroScores(graph)
    /\ active_profile' = JDC_active_profile(graph, gene_expression_data.val)
    /\ edge_cache' = EmptyDict
    /\ edge_list' = edges(graph)
    /\ edge_idx' = 1
    /\ pc' = IF Len(edges(graph)) = 0 THEN "edge_final" ELSE "edge"
    /\ UNCHANGED <<instance, go_term, results, ret, tgsoLocals, history>>

\* scores[u] += x; scores[v] += x
AddToBoth(d, u, v, x) ==
    LET d1 == DictSet(d, u, RAdd(d[u], x))
    IN  DictSet(d1, v, RAdd(d1[v], x))

\* calculate() lines 181-209: one edge of the loop
JDC_edge ==
    /\ mode = "JDC"
    /\ pc = "edge"
    /\ LET u == edge_list[edge_idx][1]
           v == edge_list[edge_idx][2]
           edge_key == SortedKey(u, v)
           ecc_uv == IF edge_key \in DOMAIN edge_cache THEN edge_cache[edge_key]
                     ELSE JDC_calculate_ecc(u, v)
           jaccard_uv == JDC_calculate_jaccard(u, v, active_profile)
           jc_uv == RMul(jaccard_uv, ecc_uv)
       IN  IF u \in DOMAIN active_profile /\ v \in DOMAIN active_profile
           THEN /\ edge_cache' = DictSet(edge_cache, edge_key, ecc_uv)
                /\ scores' = AddToBoth(scores, u, v, jc_uv)
           ELSE UNCHANGED <<edge_cache, scores>>
    /\ edge_idx' = edge_idx + 1
    /\ pc' = IF edge_idx = Len(edge_list) THEN "edge_final" ELSE "edge"
    /\ UNCHANGED <<instance, go_term, active_profile, edge_list, results, ret,
                   log, runs, tgsoLocals, history>>

\* calculate() lines 219-233: the ranking is stored and returned
JDC_finalize ==
    /\ mode = "JDC"
    /\ pc = "edge_final"
    /\ \E sorted_df \in sort_values(dropna(scores)) :
        /\ results' = Some(sorted_df)
        /\ ret' = Some(sorted_df)
    /\ pc' = "done"
    /\ ResetEdgeLocals
    /\ UNCHANGED <<instance, log, runs, tgsoLocals, history>>

\* ------------------------------------------------------------------------
\* TEO (cenproteo/modern/teo.py)
\* ------------------------------------------------------------------------
\* graph.remove_edges_from(nx.selfloop_edges(graph))
remove_selfloops(G) ==
    [nodes |-> G.nodes,
     adj |-> [u \in DOMAIN G.adj |-> SelectSeq(G.adj[u], LAMBDA w : w # u)]]

\* TEO._load_graph
TEO_load_graph(rows) == remove_selfloops(from_pandas_edgelist(rows, Len(rows)))

\* a similarity cell: NaN counts as 0
GoCell(x) == IF x = NaN THEN RZero ELSE x

\* variant: a row is stored under the orientation it has in the table only
GoStoreRowOneWay(go_dict, row) ==
    DictSet(go_dict, <<row.A, row.B>>,
            [BP |-> GoCell(row.BP), MF |-> GoCell(row.MF), CC |-> GoCell(row.CC)])

\* _load_go_similarity_from_df lines 170-201: one row is stored under (u, v)
\* and under (v, u)
GoStoreRow(go_dict, row) ==
    LET sims == [BP |-> GoCell(row.BP), MF |-> GoCell(row.MF),
                 CC |-> GoCell(row.CC)]
    IN  DictSet(DictSet(go_dict, <<row.A, row.B>>, sims), <<row.B, row.A>>, sims)

RECURSIVE GoStoreRows(_, _)
GoStoreRows(rows, c) ==
    IF c = 0 THEN EmptyDict ELSE GoStoreRow(GoStoreRows(rows, c - 1), rows[c])

\* TEO._load_go_similarity_from_df
TEO_load_go_similarity_from_df(rows) ==
    LET go_dict == GoStoreRows(rows, Len(rows))
    IN  IF DOMAIN go_dict = {} THEN None ELSE Some(go_dict)

\* TEO._calculate_ecc
\* variant: TEO takes the exponent-1 coefficient of JDC
TEO_calculate_ecc_linear(u, v) == JDC_calculate_ecc(u, v)

TEO_calculate_ecc(u, v) ==
    IF ~Contains(graph.nodes, u) \/ ~Contains(graph.nodes, v) THEN RZero
    ELSE IF v \notin neighbors(graph, u) THEN RZero
    ELSE LET num_common_neighbors ==
                Cardinality((neighbors(graph, u) \cap neighbors(graph, v)) \ {u, v})
             degree_u == degree(graph, u)
             degree_v == degree(graph, v)
             min_degree_minus_1 ==
                IF degree_u <= degree_v THEN degree_u - 1 ELSE degree_v - 1
         IN  IF min_degree_minus_1 <= 0 THEN RZero
             ELSE Rat(num_common_neighbors * num_common_neighbors
                        * num_common_neighbors, min_degree_minus_1)

\* TEO._calculate_pcc: the signed correlation over every column at which
\* both cells are numbers
TEO_calculate_pcc(u, v) ==
    IF ~gene_expression_data.some THEN RZero
    ELSE IF \/ u \notin DOMAIN gene_expression_data.val.rows
            \/ v \notin DOMAIN gene_expression_data.val.rows
    THEN RZero
    ELSE LET data_u == gene_expression_data.val.rows[u]
             data_v == gene_expression_data.val.rows[v]
             combined == {c \in DOMAIN data_u : data_u[c] # NaN /\ data_v[c] # NaN}
         IN  IF Cardinality(combined) < 2 THEN RZero
             ELSE IF \/ Sxy(data_u, data_u, combined) = 0
                     \/ Sxy(data_v, data_v, combined) = 0
                  THEN RZero
                  ELSE Pearson(data_u, data_v, combined)

\* TEO._get_go_similarity
TEO_get_go_similarity(u, v, term) ==
    LET entry == DictGet(go_similarity_data.val, <<u, v>>, EmptyDict)
    IN  DictGet(entry, term, RZero)

\* TEO.__init__: an empty table, an empty graph or an empty similarity
\* dictionary raises
TeoExprTables == {None, Some(ExprMixed)}
\* TEO.__init__ on the given files
TEO_init(ppi, expr) ==
    /\ mode = "TEO"
    /\ graph = TEO_load_graph(ppi)
    /\ gene_expression_data = expr
    /\ go_similarity_data = TEO_load_go_similarity_from_df(ppi)
    /\ results = None
    /\ ret = None
    /\ log = <<>>
    /\ runs = 0
    /\ pc = "idle"
    /\ NoTgsoData
    /\ NoEdgeLocals

InitTEO ==
    \E ppi \in PpiTables \ {PpiEmpty}, expr \in TeoExprTables : TEO_init(ppi, expr)

valid_go_terms == {"BP", "MF", "CC"}
\* the go_term arguments tried
GoTermArgs == valid_go_terms \cup {"XX"}

\* calculate() lines 349-361: a fatal precondition fails
TEO_calculate_abort ==
    /\ mode = "TEO"
    /\ pc \in {"idle", "done"}
    /\ runs < MaxRuns
    /\ \E term \in GoTermArgs :
        /\ \/ Len(graph.nodes) = 0
           \/ term \notin valid_go_terms
           \/ ~go_similarity_data.some
        /\ log' = <<Msg(IF Len(graph.nodes) = 0 THEN "Error: Graph not loaded."
                        ELSE IF term \notin valid_go_terms
                        THEN "Error: Invalid GO term"
                        ELSE "Error: GO similarity data not loaded.", 0)>>
    /\ runs' = runs + 1
    /\ ret' = None
    /\ pc' = "done"
    /\ UNCHANGED <<instance, edgeLocals, results, tgsoLocals, history>>

\* calculate() lines 363-370: scores start at 0, the PCC cache is empty
TEO_calculate_start ==
    /\ mode = "TEO"
    /\ pc \in {"idle", "done"}
    /\ runs < MaxRuns
    /\ Len(graph.nodes) # 0 /\ go_similarity_data.some
    /\ \E term \in valid_go_terms : go_term' = term
    /\ runs' = runs + 1
    /\ log' = <<>>
    /\ scores' = ZeroScores(graph)
    /\ edge_cache' = EmptyDict
    /\ edge_list' = edges(graph)
    /\ edge_idx' = 1
    /\ pc' = IF Len(edges(graph)) = 0 THEN "edge_final" ELSE "edge"
    /\ UNCHANGED <<instance, active_profile, results, ret, tgsoLocals, history>>

\* calculate() lines 373-414: one edge of the loop
TEO_edge ==
    /\ mode = "TEO"
    /\ pc = "edge"
    /\ LET u == edge_list[edge_idx][1]
           v == edge_list[edge_idx][2]
           ecc_uv == TEO_calculate_ecc(u, v)
           go_sim_uv == TEO_get_go_similarity(u, v, go_term)
           pair_key == SortedKey(u, v)
           pcc_uv == IF pair_key \in DOMAIN edge_cache THEN edge_cache[pair_key]
                     ELSE TEO_calculate_pcc(u, v)
           edge_contribution ==
               IF ecc_uv = FNaN \/ go_sim_uv = FNaN \/ pcc_uv = FNaN THEN RZero
               ELSE RMul(ecc_uv, RAdd(go_sim_uv, pcc_uv))
       IN  /\ edge_cache' = DictSet(edge_cache, pair_key, pcc_uv)
           /\ scores' = AddToBoth(scores, u, v, edge_contribution)
    /\ edge_idx' = edge_idx + 1
    /\ pc' = IF edge_idx = Len(edge_list) THEN "edge_final" ELSE "edge"
    /\ UNCHANGED <<instance, go_term, active_profile, edge_list, results, ret,
                   log, runs, tgsoLocals, history>>

\* calculate() lines 416-435: the ranking is stored and returned
TEO_finalize ==
    /\ mode = "TEO"
    /\ pc = "edge_final"
    /\ \E sorted_df \in sort_values(dropna(scores)) :
        /\ results' = Some(sorted_df)
        /\ ret' = Some(sorted_df)
    /\ pc' = "done"
    /\ ResetEdgeLocals
    /\ UNCHANGED <<instance, log, runs, tgsoLocals, history>>

Init == InitTGSO \/ InitJDC \/ InitTEO

Next ==
    \/ TGSO_calculate_abort
    \/ TGSO_calculate_start
    \/ TGSO_lsg_node
    \/ TGSO_normalize
    \/ TGSO_round_begin
    \/ TGSO_update_node
    \/ TGSO_convergence_check
    \/ TGSO_loop_exhausted
    \/ TGSO_finalize
    \/ JDC_calculate_abort
    \/ JDC_calculate_no_overlap
    \/ JDC_calculate_start
    \/ JDC_edge
    \/ JDC_finalize
    \/ TEO_calculate_abort
    \/ TEO_calculate_start
    \/ TEO_edge
    \/ TEO_finalize

Spec == Init /\ [][Next]_vars

(***************************************************************************)
(* Degenerate inputs: infinite values in the input files, expression       *)
(* vectors without variance or with a single usable time point, and a      *)
(* node without any edge.                                                  *)
(***************************************************************************)
\* a triangle whose edge A-B has an infinite BP similarity
PpiInfGo == <<PpiRow("A", "B", Inf, Half, RZero), Edge("B", "C"), Edge("A", "C")>>
\* a path whose edge A-B has an infinite MF similarity
PpiInfGoPath == <<PpiRow("A", "B", ROne, Inf, RZero), Edge("C", "B")>>
\* every protein has constant expression; D has one usable time point
ExprFlat ==
    [cols |-> <<"t1", "t2", "t3">>,
     rows |-> [p \in {"A", "B", "C", "D"} |->
        IF p = "D" THEN <<NaN, NaN, Num(5)>> ELSE <<Num(2), Num(2), Num(2)>>]]
\* A has constant expression, D a single usable time point, C has no row
ExprSparse ==
    [cols |-> <<"t1", "t2", "t3">>,
     rows |-> [p \in {"A", "B", "D"} |->
        CASE p = "A" -> <<Num(2), Num(2), Num(2)>>
          [] p = "B" -> <<Num(1), Num(2), Num(3)>>
          [] p = "D" -> <<NaN, NaN, Num(5)>>]]
\* every measurement of A, B and C is 0.1
ExprTenths ==
    [cols |-> <<"t1", "t2", "t3">>,
     rows |-> [p \in {"A", "B", "C"} |-> <<<<1, 10>>, <<1, 10>>, <<1, 10>>>>]]
\* constant profiles followed by their summary columns Mean and STD
ExprSummary ==
    [cols |-> <<"t1", "t2", "t3", "Mean", "STD">>,
     rows |-> [p \in {"A", "B", "C"} |->
        CASE p = "A" -> <<Num(2), Num(2), Num(2), Num(2), Num(0)>>
          [] p = "B" -> <<Num(1), Num(1), Num(1), Num(1), Num(0)>>
          [] p = "C" -> <<Num(3), Num(3), Num(3), Num(3), Num(0)>>]]
\* the active-expression table without the rows of C and D
ExprActiveAB == [ExprActive EXCEPT !.rows = [p \in {"A", "B"} |-> ExprActive.rows[p]]]
\* a localization file that knows A only
LocSparse == <<<<"A", "n">>>>
\* a localization file whose label c occurs only on a later row of A
LocSecond == <<<<"A", "n">>, <<"A", "c">>, <<"B", "n">>>>
\* an orthology file with an infinite O_score
OrthoInf ==
    [p \in {"A", "B", "C"} |->
        CASE p = "A" -> Inf [] p = "B" -> ROne [] p = "C" -> RZero]

InitDegenerate ==
    \/ \E ppi \in {PpiEmpty, PpiPath, PpiTriangle},
          isolated \in {<<>>, <<"X">>},
          expr \in {None, Some(ExprFlat), Some(ExprSparse), Some(ExprTenths),
                    Some(ExprSummary)},
          loc \in {None, Some(LocMixed), Some(LocSparse), Some(LocSecond)},
          ortho \in {None, Some(OrthoAll), Some(OrthoInf)} :
           /\ TGSO_init(ppi, isolated, expr, loc, ortho)
           /\ alpha \in {RZero, Half}
           /\ max_iter \in {0, MaxIterBound}
           /\ tol = <<1, 4>>
    \/ \E ppi \in {PpiEmpty, PpiTriangle, PpiPendant},
          expr \in {None, Some(ExprActive), Some(ExprOther), Some(ExprActiveAB)} :
           JDC_init(ppi, expr)
    \/ \E ppi \in {PpiInfGo, PpiInfGoPath, PpiTriangle, PpiPendant},
          expr \in {None, Some(ExprFlat), Some(ExprSparse), Some(ExprSummary)} :
           TEO_init(ppi, expr)

SpecDegenerate == InitDegenerate /\ [][Next]_vars

\* ------------------------------------------------------------------------
\* Reference definitions used by the properties
\* ------------------------------------------------------------------------
InRound == pc \in {"node", "check"}
TgsoAt(p) == mode = "TGSO" /\ pc = p
Logged(m) == \E k \in 1..Len(log) : log[k].msg = m
NodeSet == Range(nodes)

RefTotalLsg == SumRats(lsg_scores, DOMAIN lsg_scores)
RefNormalizer == IF RefTotalLsg = RZero THEN ROne ELSE RefTotalLsg
RefPcin(a, b) ==
    IF a = b THEN RDiv(lsg_scores[a], RefNormalizer)
    ELSE RDiv(RMin(lsg_scores[a], lsg_scores[b]), RefNormalizer)
\* (1 - alpha) * SUM_j PCIN(n, j) * prev(j) + alpha * P0(n), over all nodes j
RefScore(n, prev) ==
    RAdd(RMul(RSub(ROne, alpha),
              SumRats([j \in NodeSet |-> RMul(RefPcin(n, j), prev[j])], NodeSet)),
         RMul(alpha, P0[n]))
\* max_i |a(i) - b(i)|
RefMaxDiff(a, b) ==
    LET d == [n \in NodeSet |-> RAbs(RSub(a[n], b[n]))]
    IN  d[CHOOSE n \in NodeSet : \A m \in NodeSet : RLe(d[m], d[n])]

\* ------------------------------------------------------------------------
\* Properties
\* ------------------------------------------------------------------------
\* C1: in every round, each new score written is
\* (1 - alpha) * SUM over all graph nodes j of PCIN(i, j) * P(j) + alpha * P0(i)
\* with PCIN(i, i) = LSG(i)/total and PCIN(i, j) = min(LSG(i), LSG(j))/total;
\* the restart term enters once per node, and a finished round has a score
\* for every node.
C1_UpdateFormula ==
    /\ InRound => \A n \in DOMAIN P_new : P_new[n] = RefScore(n, P)
    /\ pc = "check" => DOMAIN P_new = NodeSet

\* C1 witness: a second round has finished in which a node with a prior
\* draws score from a node that is not its neighbour, with 0 < alpha < 1
C1_Witness ==
    /\ pc = "check"
    /\ iter_time = 2
    /\ alpha = Half
    /\ \E a \in NodeSet, b \in NodeSet :
        /\ a # b
        /\ b \notin neighbors(graph, a)
        /\ RefPcin(a, b) # RZero
        /\ P[b] # RZero
        /\ P0[a] # RZero

\* C2: when a round ends, max_i |P_new(i) - P(i)| is compared with tol: below
\* tol the P_new of that round becomes the final vector and no round follows;
\* otherwise P := P_new and the next round reads it.
C2_ConvergenceRule ==
    [][/\ pc = "check" =>
            /\ P' = P_new
            /\ IF RLt(RefMaxDiff(P_new, P), tol)
               THEN pc' = "final" /\ iter_time' = iter_time
               ELSE pc' = "loop" /\ iteration' = iteration + 1
       /\ (pc = "loop" /\ pc' = "node") =>
            \A n \in NodeSet : P_j_values'[n] = P[n]
       /\ pc = "final" =>
            /\ pc' = "done"
            /\ history' = Append(history, [P |-> P, iter_time |-> iter_time])
            /\ \A k \in 1..Len(ret'.val.rows) :
                ret'.val.rows[k][2] = P[ret'.val.rows[k][1]]
      ]_vars

\* C2 witness: a run converged in a round that changed the vector
C2_Witness ==
    /\ pc = "final"
    /\ Logged("Converged")
    /\ P # P_j_values

\* the largest number of steps the running calculate() can still take
StepsLeft ==
    LET n == Len(nodes)
        round == n + 2
    IN  CASE pc = "lsg" -> (n - i + 1) + 1 + max_iter * round + 2
          [] pc = "total" -> 1 + max_iter * round + 2
          [] pc = "loop" -> (max_iter - iteration) * round + 2
          [] pc = "node" -> (n - i + 1) + 1 + (max_iter - iteration - 1) * round + 2
          [] pc = "check" -> 1 + (max_iter - iteration - 1) * round + 2
          [] pc = "final" -> 1
          [] OTHER -> 0

\* C3: a run never performs more than max_iter rounds, and every step of it
\* lowers a bound on the steps left, so it ends; when no round met the
\* tolerance, max_iter rounds were performed and the vector of the last one
\* (P0 itself when max_iter = 0) is the final one, from which a ranking is
\* returned.
C3_BoundedRounds ==
    /\ [](/\ iter_time <= max_iter
          /\ StepsLeft >= 0
          /\ (pc = "final" /\ Logged("Warning: Did not converge")) =>
                /\ iter_time = max_iter
                /\ P = IF max_iter = 0 THEN P0 ELSE P_new
          /\ (TgsoAt("done") /\ Logged("Warning: Did not converge")) =>
                /\ ret.some
                /\ history[Len(history)].iter_time = max_iter)
    /\ [][(mode = "TGSO" /\ pc \notin {"idle", "done"}) => StepsLeft' < StepsLeft]_vars

\* C3 witness: two rounds ran without meeting the tolerance and the vector
\* still moved
C3_Witness ==
    /\ pc = "final"
    /\ Logged("Warning: Did not converge")
    /\ iter_time = 2
    /\ P # P0
    /\ P # P_j_values

\* C4: during a round the previous vector P and its snapshot stay fixed, the
\* scores already written stay as they are, and every score written equals
\* the update computed from the previous round's vector alone, whatever has
\* been written to P_new so far.
C4_IterationBarrier ==
    [][pc = "node" =>
        /\ P' = P
        /\ P_j_values' = P_j_values
        /\ \A n \in NodeSet : P_j_values[n] = P[n]
        /\ \A n \in DOMAIN P_new : P_new'[n] = P_new[n]
        /\ \A n \in DOMAIN P_new' : P_new'[n] = RefScore(n, P)
      ]_vars

\* C4 witness: a node is about to be updated after another node, from which
\* it draws score, got a new value different from its old one
C4_Witness ==
    /\ pc = "node"
    /\ alpha # ROne
    /\ \E n \in DOMAIN P_new :
        /\ P_new[n] # P[n]
        /\ RefPcin(nodes[i], n) # RZero

\* what a caller holds after calculate() returned a value
Exposed == DOMAIN ret.val \cup DOMAIN results.val

\* C5 as stated: the value a finished run hands to the caller carries the
\* number of rounds performed and a convergence flag next to the ranking.
C5_RoundsAndFlagExposed ==
    (TgsoAt("done") /\ ret.some) => {"iter_time", "converged"} \subseteq Exposed

\* C5: a finished run returns, and stores in results, the ranked table of
\* (protein, score) rows and nothing else; the number of rounds and whether a
\* round met max_diff < tol are only printed: "Converged" with the number of
\* rounds exactly when the last round met the tolerance, the non-convergence
\* warning with max_iter otherwise.
C5_OnlyRankingReturned ==
    /\ (TgsoAt("done") /\ ret.some) =>
        /\ results = ret
        /\ DOMAIN ret.val = {"columns", "rows"}
        /\ ret.val.columns = <<"Protein", "Score">>
        /\ {ret.val.rows[k][1] : k \in 1..Len(ret.val.rows)} = Range(graph.nodes)
        /\ \A k \in 1..Len(ret.val.rows) :
            /\ Len(ret.val.rows[k]) = 2
            /\ ret.val.rows[k][2] = history[Len(history)].P[ret.val.rows[k][1]]
            /\ k > 1 => RLe(ret.val.rows[k][2], ret.val.rows[k - 1][2])
    /\ pc = "final" =>
        /\ Logged("Converged") <=>
            (iter_time >= 1 /\ RLt(RefMaxDiff(P, P_j_values), tol))
        /\ Logged("Converged") <=> ~Logged("Warning: Did not converge")
        /\ \A k \in 1..Len(log) :
            /\ log[k].msg = "Converged" => log[k].n = iter_time
            /\ log[k].msg = "Warning: Did not converge" => log[k].n = max_iter

\* C5 witness: a run that converged in its second round has returned
C5_Witness ==
    /\ TgsoAt("done")
    /\ ret.some
    /\ Logged("Converged")
    /\ history[Len(history)].iter_time = 2

\* C6: the normalizer is never 0: it is 1, with the warning printed, when the
\* LSG scores sum to 0, and the sum otherwise; a run with the warning still
\* goes through the propagation and returns a ranking of all nodes.
C6_ZeroTotalLsg ==
    /\ total_lsg_norm # RZero
    /\ pc \in {"loop", "node", "check", "final"} =>
        /\ total_lsg = RefTotalLsg
        /\ IF total_lsg = RZero
           THEN total_lsg_norm = ROne /\ Logged("Warning: Total LSG score is zero.")
           ELSE total_lsg_norm = total_lsg
                /\ ~Logged("Warning: Total LSG score is zero.")
    /\ (TgsoAt("done") /\ Logged("Warning: Total LSG score is zero.")) =>
        /\ ret.some
        /\ Len(ret.val.rows) = Len(graph.nodes)
        /\ Logged("Converged") \/ Logged("Warning: Did not converge")

\* C6 witness: a run with a zero LSG total went through a round and returned
C6_Witness ==
    /\ TgsoAt("done")
    /\ Logged("Warning: Total LSG score is zero.")
    /\ ret.some
    /\ history[Len(history)].iter_time >= 1

AllLsgZero == \A n \in NodeSet : lsg_scores[n] = RZero
PriorOnA ==
    /\ NodeSet = {"A", "B", "C"}
    /\ P0 = [n \in NodeSet |-> IF n = "A" THEN ROne ELSE RZero]

\* C7 as stated: with all LSG scores 0 and the prior {A: 1, B: 0, C: 0} the
\* final vector is the prior, for alpha strictly between 0 and 1.
C7_FinalIsPrior ==
    (pc = "final" /\ AllLsgZero /\ PriorOnA /\ alpha = Half) => P = P0

\* C7: with all LSG scores 0 every round yields alpha * P0, so the final
\* vector is alpha * P0 as soon as one round has run, and P0 only when no
\* round ran (max_iter = 0).
C7_FinalIsScaledPrior ==
    (pc = "final" /\ AllLsgZero) =>
        \A n \in NodeSet :
            P[n] = IF iter_time = 0 THEN P0[n] ELSE RMul(alpha, P0[n])

\* C7 witness: the three-node path without common neighbours, prior on A,
\* alpha = 1/2: the final score of A is 1/2
C7_Witness ==
    /\ pc = "final"
    /\ AllLsgZero
    /\ PriorOnA
    /\ alpha = Half
    /\ iter_time >= 1
    /\ P["A"] = Half

\* C8: with alpha = 1, a positive tolerance and max_iter >= 1, the run stops
\* after exactly one round, with max_diff = 0, and the final vector is P0.
C8_RestartDominates ==
    (pc = "final" /\ alpha = ROne /\ RLt(RZero, tol) /\ max_iter >= 1) =>
        /\ iter_time = 1
        /\ max_diff = RZero
        /\ Logged("Converged")
        /\ \A n \in NodeSet : P[n] = P0[n]

\* C8 witness: such a run on a graph with non-zero LSG scores and a non-zero
\* prior, with room for a second round
C8_Witness ==
    /\ pc = "final"
    /\ alpha = ROne
    /\ RLt(RZero, tol)
    /\ max_iter = 2
    /\ ~AllLsgZero
    /\ \E n \in NodeSet : P0[n] # RZero

\* C9: two runs on the same instance end with the same score vector after the
\* same number of rounds; each run starts its LSG pass with empty caches and
\* its first round from P = P0.
C9_Idempotent ==
    /\ Len(history) = 2 => history[1] = history[2]
    /\ (pc = "lsg" /\ i = 1) => (cache = EmptyCache /\ lsg_scores = EmptyDict)
    /\ (pc = "loop" /\ iter_time = 0) =>
        (DOMAIN P = NodeSet /\ \A n \in NodeSet : P[n] = P0[n])

\* C9 witness: the second of two runs took two rounds and moved the scores
C9_Witness ==
    /\ TgsoAt("done")
    /\ Len(history) = 2
    /\ history[2].iter_time = 2
    /\ \E n \in DOMAIN history[2].P :
        history[2].P[n] # DictGet(orthology_data.val, n, RZero)

\* the pairs of adjacent nodes, in both orientations
AdjacentPairs ==
    {e \in Range(graph.nodes) \X Range(graph.nodes) : e[2] \in neighbors(graph, e[1])}
\* each edge once, as (u, v) with u <= v
SortedPairs == {e \in AdjacentPairs : SortedKey(e[1], e[2]) = e}

\* TGSO: ADN, PCC, CLN and CEN of an edge do not depend on the orientation,
\* and every cached value is the value computed for either orientation
TgsoWeightsSymmetric ==
    /\ \A e \in SortedPairs :
        LET u == e[1]
            v == e[2]
            cen_uv == TGSO_calculate_cen(u, v, cache.pcc).val
            cen_vu == TGSO_calculate_cen(v, u, cache.pcc).val
        IN  /\ TGSO_calculate_adn(u, v) = TGSO_calculate_adn(v, u)
            /\ TGSO_calculate_pcc(u, v) = TGSO_calculate_pcc(v, u)
            /\ TGSO_calculate_cln(u, v) = TGSO_calculate_cln(v, u)
            /\ cen_uv = cen_vu
            /\ e \in DOMAIN cache.adn => cache.adn[e] = TGSO_calculate_adn(u, v)
            /\ e \in DOMAIN cache.cln => cache.cln[e] = TGSO_calculate_cln(u, v)
            /\ e \in DOMAIN cache.cen => cache.cen[e] = cen_uv
    /\ \A q \in DOMAIN cache.adn \cup DOMAIN cache.cln \cup DOMAIN cache.cen :
        q \in SortedPairs
    /\ \A q \in DOMAIN cache.pcc :
        /\ <<q[2], q[1]>> \in DOMAIN cache.pcc
        /\ cache.pcc[q] = cache.pcc[<<q[2], q[1]>>]
        /\ cache.pcc[q] = TGSO_calculate_pcc(q[1], q[2])

\* JDC: ECC and the activity Jaccard of an edge, and the cached ECC
JdcWeightsSymmetric ==
    \A e \in AdjacentPairs :
        LET u == e[1]
            v == e[2]
            key == SortedKey(u, v)
        IN  /\ JDC_calculate_ecc(u, v) = JDC_calculate_ecc(v, u)
            /\ JDC_calculate_jaccard(u, v, active_profile)
                    = JDC_calculate_jaccard(v, u, active_profile)
            /\ key \in DOMAIN edge_cache => edge_cache[key] = JDC_calculate_ecc(u, v)

\* TEO: ECC, the signed PCC and the GO similarity of an edge under each term,
\* the cached PCC, and the similarity dictionary itself
TeoWeightsSymmetric ==
    /\ \A e \in AdjacentPairs :
        LET u == e[1]
            v == e[2]
            key == SortedKey(u, v)
        IN  /\ TEO_calculate_ecc(u, v) = TEO_calculate_ecc(v, u)
            /\ TEO_calculate_pcc(u, v) = TEO_calculate_pcc(v, u)
            /\ \A term \in valid_go_terms :
                TEO_get_go_similarity(u, v, term) = TEO_get_go_similarity(v, u, term)
            /\ key \in DOMAIN edge_cache => edge_cache[key] = TEO_calculate_pcc(u, v)
    /\ \A q \in DOMAIN go_similarity_data.val :
        /\ <<q[2], q[1]>> \in DOMAIN go_similarity_data.val
        /\ go_similarity_data.val[q] = go_similarity_data.val[<<q[2], q[1]>>]

\* C10: for every edge (u, v), each of ECC, ADN, PCC, CEN, CLN, GO similarity
\* and activity Jaccard has the same value for (u, v) and for (v, u), whether
\* it is computed afresh or read from a cache or from the similarity
\* dictionary, whichever endpoint was visited first and whichever
\* orientation the pair has in the table.
C10_WeightsSymmetric ==
    /\ (mode = "TGSO" /\ pc \in {"lsg", "total"}) => TgsoWeightsSymmetric
    /\ (mode = "JDC" /\ pc \in {"edge", "edge_final"}) => JdcWeightsSymmetric
    /\ mode = "TEO" => TeoWeightsSymmetric

\* C10 witness: TEO on a table that lists the pair A, B in both orientations
\* with different similarities; the edge was visited as (B, A), its PCC is
\* cached under (A, B), and its similarity is that of the later row
C10_Witness ==
    /\ mode = "TEO"
    /\ pc = "edge"
    /\ edge_idx = 2
    /\ edge_list[1] = <<"B", "A">>
    /\ edge_cache[<<"A", "B">>] = Half
    /\ TEO_get_go_similarity("B", "A", "BP") = Half
    /\ TEO_get_go_similarity("A", "B", "MF") = RZero

(***************************************************************************)
(* Degenerate nodes, fatal preconditions and the shape of the ranking.     *)
(***************************************************************************)
\* the graph nodes without any edge
IsolatedNodes == {n \in Range(graph.nodes) : degree(graph, n) = 0}
\* the TGSO call is between its first LSG step and its return
InCall == mode = "TGSO" /\ pc \in {"lsg", "total", "loop", "node", "check", "final"}
\* the nodes the edge-weight caches of the call mention
CacheNodes ==
    DOMAIN cache.lsg
      \cup UNION {{key[1], key[2]} :
                    key \in DOMAIN cache.adn \cup DOMAIN cache.cln
                             \cup DOMAIN cache.cen \cup DOMAIN cache.pcc}

\* C11: a graph node of degree 0 gets LSG 0 whatever the expression,
\* localization and orthology stores hold, and none of the caches of ADN,
\* CLN, CEN, PCC or LSG ever holds an entry for it: the edge engine is not
\* visited on its behalf.
C11_IsolatedNodeSkipsEdgeEngine ==
    InCall =>
        \A n \in IsolatedNodes :
            /\ n \in DOMAIN lsg_scores => lsg_scores[n] = RZero
            /\ n \notin CacheNodes

\* an isolated node has its LSG score while its connected neighbours in the
\* node order already filled the caches, with every store loaded
C11_Witness ==
    /\ InCall
    /\ "X" \in IsolatedNodes
    /\ "X" \in DOMAIN lsg_scores
    /\ DOMAIN cache.lsg # {}
    /\ gene_expression_data.some /\ localization_data.some
    /\ "X" \in DOMAIN orthology_data.val

\* the proteins of a ranking, in order
RankedProteins(df) == [k \in 1..Len(df.rows) |-> df.rows[k][1]]
\* seq lists every element of S exactly once
ListsExactlyOnce(seq, S) ==
    /\ Range(seq) = S
    /\ Len(seq) = Cardinality(S)

\* C12: throughout TGSO.calculate the score vector has exactly the graph's
\* nodes as its domain: P0, the P of every round, every completed P_new and
\* the final vector hold one entry per graph node and none for a protein
\* known to the orthology store only, and a graph node the orthology store
\* does not know has P0 = 0.
C12_DomainIsNodeSet ==
    /\ (mode = "TGSO" /\ pc \in {"loop", "node", "check", "final"}) =>
        /\ DOMAIN P0 = Range(graph.nodes)
        /\ DOMAIN P = Range(graph.nodes)
        /\ \A n \in Range(graph.nodes) \ DOMAIN orthology_data.val : P0[n] = RZero
        /\ pc = "node" => DOMAIN P_new = {nodes[k] : k \in 1..(i - 1)}
        /\ pc = "check" => DOMAIN P_new = Range(graph.nodes)
    /\ (TgsoAt("done") /\ ret.some) =>
        /\ DOMAIN history[Len(history)].P = Range(graph.nodes)
        /\ ListsExactlyOnce(RankedProteins(ret.val), Range(graph.nodes))

\* the second round is complete on a graph with a node the orthology store
\* does not know (D), while the store knows a protein outside the graph (C)
C12_Witness ==
    /\ TgsoAt("check")
    /\ iter_time = 2
    /\ "D" \in Range(graph.nodes) \ DOMAIN orthology_data.val
    /\ "C" \in DOMAIN orthology_data.val \ Range(graph.nodes)
    /\ DOMAIN P_new = Range(graph.nodes)

\* the rows of the ranking carry the scores of score_of
RowsCarry(df, score_of) ==
    \A k \in 1..Len(df.rows) : df.rows[k][2] = score_of[df.rows[k][1]]

\* C13 as stated: in every mode a node whose score is NaN or infinite is
\* ranked with score 0, so that every ranking calculate() returns lists
\* every graph node exactly once.
C13_EveryNodeRanked ==
    (pc = "done" /\ ret.some) =>
        ListsExactlyOnce(RankedProteins(ret.val), Range(graph.nodes))

\* C13, amended: TGSO ranks a node whose final score is NaN or infinite with
\* score 0 and its ranking lists every graph node exactly once; JDC and TEO
\* remove the nodes whose score is NaN or infinite, so their ranking lists
\* exactly the graph nodes with a finite score, each once and with that
\* score.
C13_NonFiniteScores ==
    [][/\ (TgsoAt("final") /\ pc' = "done") =>
            /\ ret'.some
            /\ ListsExactlyOnce(RankedProteins(ret'.val), Range(graph.nodes))
            /\ RowsCarry(ret'.val,
                         [n \in DOMAIN P |-> IF IsFinite(P[n]) THEN P[n] ELSE RZero])
       /\ (mode \in {"JDC", "TEO"} /\ pc = "edge_final" /\ pc' = "done") =>
            /\ ret'.some
            /\ ListsExactlyOnce(RankedProteins(ret'.val),
                                {n \in Range(graph.nodes) : IsFinite(scores[n])})
            /\ RowsCarry(ret'.val, scores)]_vars

\* TEO returned a ranking without A and B, whose edge has an infinite GO
\* similarity, and with C
C13_Witness ==
    /\ mode = "TEO" /\ pc = "done" /\ ret.some
    /\ {"A", "B", "C"} \subseteq Range(graph.nodes)
    /\ Range(RankedProteins(ret.val)) = {"C"}

\* a fatal precondition of TGSO fails on this instance
FatalPrecondition ==
    mode = "TGSO" /\ (Len(graph.nodes) = 0 \/ ~orthology_data.some)

\* C14: when the graph is missing or has no nodes, or the orthology store
\* could not be loaded, TGSO aborts with a precondition-failure signal: the
\* constructor raises, or calculate() reports the error and returns nothing;
\* the LSG and propagation stages are never entered, no ranking is produced
\* and the stored results are never set.
C14_FatalPreconditions ==
    FatalPrecondition =>
        /\ pc \in {"idle", "done", "raised"}
        /\ results = None /\ ret = None
        /\ history = <<>>
        /\ lsg_scores = EmptyDict /\ P = EmptyDict
        /\ ~orthology_data.some => pc = "raised" /\ runs = 0 /\ Len(log) = 1
        /\ pc = "done" => log = <<Msg("Error: Graph not loaded or empty.", 0)>>

\* calculate() was called twice on an instance with an empty graph
C14_Witness ==
    /\ FatalPrecondition
    /\ pc = "done" /\ runs = 2
    /\ log = <<Msg("Error: Graph not loaded or empty.", 0)>>

\* the columns at which the expression rows of u and v both hold a number
PairedPoints(u, v) ==
    LET rows == gene_expression_data.val.rows
    IN  {k \in DOMAIN rows[u] : rows[u][k] # NaN /\ rows[v][k] # NaN}
\* the row of p has the same value at every column of idx
ZeroVariance(p, idx) ==
    LET row == gene_expression_data.val.rows[p]
    IN  \A j \in idx, k \in idx : row[j] = row[k]
\* the pair has no usable correlation: a store or a row is missing, fewer
\* than 2 paired points exist, or one of the two vectors has no variance
DegenerateExpression(u, v) ==
    \/ ~gene_expression_data.some
    \/ u \notin DOMAIN gene_expression_data.val.rows
    \/ v \notin DOMAIN gene_expression_data.val.rows
    \/ Cardinality(PairedPoints(u, v)) < 2
    \/ ZeroVariance(u, PairedPoints(u, v))
    \/ ZeroVariance(v, PairedPoints(u, v))
\* neither protein has a label: the localization store is missing or knows
\* neither of them
EmptyLabelUnion(u, v) ==
    \/ ~localization_data.some
    \/ /\ DictGet(localization_data.val, u, {}) = {}
       /\ DictGet(localization_data.val, v, {}) = {}
\* a call of calculate() is under way
Running == pc \notin {"idle", "done", "raised"}

\* the per-edge features of degenerate pairs are 0
DegenerateFeaturesAreZero ==
    /\ InCall =>
        /\ \A key \in DOMAIN cache.pcc :
              DegenerateExpression(key[1], key[2]) => cache.pcc[key] = RZero
        /\ \A key \in DOMAIN cache.cln :
              EmptyLabelUnion(key[1], key[2]) => cache.cln[key] = RZero
        /\ \A key \in DOMAIN cache.cen :
              (\A w \in Range(graph.nodes) :
                    DegenerateExpression(key[1], w) /\ DegenerateExpression(key[2], w))
                => cache.cen[key] = RZero
        /\ pc \in {"loop", "node", "check", "final"} =>
              /\ total_lsg_norm # RZero
              /\ \A n \in IsolatedNodes : lsg_scores[n] = RZero
    /\ (mode = "TEO" /\ Running) =>
        \A key \in DOMAIN edge_cache :
            DegenerateExpression(key[1], key[2]) => edge_cache[key] = RZero

\* a JDC edge with an endpoint that has no expression row adds nothing
SkippedEdgeAddsNothing ==
    (mode = "JDC" /\ pc = "edge"
        /\ \E n \in {edge_list[edge_idx][1], edge_list[edge_idx][2]} :
              n \notin DOMAIN gene_expression_data.val.rows)
      => scores' = scores

\* a bound on the steps the running call has left
EdgeStepsLeft ==
    CASE pc = "edge" -> (Len(edge_list) - edge_idx + 1) + 1
      [] pc = "edge_final" -> 1
      [] OTHER -> 0
WorkLeft == IF mode = "TGSO" THEN StepsLeft ELSE EdgeStepsLeft

\* the running call has a next step to take
CanStep ==
    CASE pc \in {"lsg", "node"} -> i \in 1..Len(nodes)
      [] pc = "edge" -> edge_idx \in 1..Len(edge_list)
      [] pc = "final" -> sort_values(final_scores(P)) # {}
      [] pc = "edge_final" -> sort_values(dropna(scores)) # {}
      [] OTHER -> TRUE

\* the messages of the calls that stop at a fatal precondition
FatalMessages ==
    {"Error: Graph not loaded or empty.", "Error: Orthology data not loaded.",
     "Error: Graph and Gene Expression data must be loaded.",
     "Error: Graph not loaded.", "Error: Invalid GO term",
     "Error: GO similarity data not loaded."}

\* C15: local degeneracies never abort a run.  Whatever proteins are missing
\* from the expression or localization store, with zero-variance vectors,
\* fewer than 2 paired points, empty label unions, nodes of degree 0 or a
\* zero LSG total, a call of calculate() of TGSO, JDC and TEO that passed
\* its fatal preconditions always has a next step, every step lowers the
\* bound on the steps left, and it ends by returning a ranking; the feature
\* of every affected pair is 0.
C15_DegeneraciesNeverAbort ==
    /\ [](/\ DegenerateFeaturesAreZero
          /\ Running => CanStep /\ WorkLeft > 0
          /\ (pc = "done" /\ ~ret.some) =>
                Len(log) = 1 /\ log[1].msg \in FatalMessages)
    /\ [][/\ SkippedEdgeAddsNothing
          /\ Running => WorkLeft' < WorkLeft]_vars

\* TGSO is about to return: A and B have constant expression, and the PCC
\* of the edge A-B is 1
C15_Witness ==
    /\ TgsoAt("final")
    /\ gene_expression_data.some
    /\ {"A", "B"} \subseteq DOMAIN gene_expression_data.val.rows
    /\ ZeroVariance("A", PairedPoints("A", "B"))
    /\ ZeroVariance("B", PairedPoints("A", "B"))
    /\ <<"A", "B">> \in DOMAIN cache.pcc
    /\ cache.pcc[<<"A", "B">>] = ROne

(***************************************************************************)
(* The order of the ranking.                                               *)
(***************************************************************************)
\* the step returns a ranking
ReturnsRanking ==
    /\ pc \in {"final", "edge_final"} \/ runs' = runs + 1
    /\ pc' = "done"
    /\ ret'.some
\* the scores the returning step ranks
ScoredNodes ==
    CASE mode = "TGSO" -> final_scores(P)
      [] pc = "edge_final" -> dropna(scores)
      [] OTHER -> ZeroScores(graph)
\* the rows are in non-increasing score order
NonIncreasing(df) ==
    \A k \in 1..(Len(df.rows) - 1) : RLe(df.rows[k + 1][2], df.rows[k][2])
\* the pairs of rows with equal scores, as (earlier, later) protein
TiedPairs(df) ==
    {<<df.rows[j][1], df.rows[k][1]>> :
        <<j, k>> \in {jk \in (1..Len(df.rows)) \X (1..Len(df.rows)) :
                        jk[1] < jk[2] /\ df.rows[jk[1]][2] = df.rows[jk[2]][2]}}

\* C16 as stated: the ranking is in non-increasing score order and two nodes
\* with equal scores keep the relative order of the graph's node iteration
\* (the sort is stable).
C16_StableTies ==
    (pc = "done" /\ ret.some) =>
        /\ NonIncreasing(ret.val)
        /\ \A t \in TiedPairs(ret.val) : NodePos(graph, t[1]) < NodePos(graph, t[2])

\* C16, amended: in every mode the returned ranking is a permutation of the
\* scored nodes in non-increasing score order; nothing fixes the relative
\* order of nodes with equal scores.
C16_SortedPermutation ==
    [][ReturnsRanking =>
        /\ ListsExactlyOnce(RankedProteins(ret'.val), DOMAIN ScoredNodes)
        /\ RowsCarry(ret'.val, ScoredNodes)
        /\ NonIncreasing(ret'.val)]_vars

\* TGSO returned a ranking with a strict descent and with two tied nodes in
\* the reverse of their node-iteration order
C16_Witness ==
    /\ TgsoAt("done") /\ ret.some
    /\ \E k \in 1..(Len(ret.val.rows) - 1) :
          RLt(ret.val.rows[k + 1][2], ret.val.rows[k][2])
    /\ \E t \in TiedPairs(ret.val) : NodePos(graph, t[2]) < NodePos(graph, t[1])

\* C17: nodes with equal scores are ranked in the order of their protein
\* identifiers, so the ranking is fully determined by the set of (protein,
\* score) pairs and depends neither on the construction of the graph nor on
\* container iteration order.
C17_TiesByIdentifier ==
    (pc = "done" /\ ret.some) =>
        \A t \in TiedPairs(ret.val) : OrdOf(t[1]) < OrdOf(t[2])

(***************************************************************************)
(* The edge-sum modes and their edge features.                             *)
(***************************************************************************)
\* the per-edge product of the running mode: ECC x activity-Jaccard in JDC,
\* ECC x (GO similarity + PCC) in TEO
EdgeProduct(u, v) ==
    IF mode = "JDC"
    THEN RMul(JDC_calculate_jaccard(u, v, active_profile), JDC_calculate_ecc(u, v))
    ELSE RMul(TEO_calculate_ecc(u, v),
              RAdd(TEO_get_go_similarity(u, v, go_term), TEO_calculate_pcc(u, v)))
\* the positions in edge_list of the edges incident to n
IncidentEdges(n) ==
    {k \in 1..Len(edge_list) : n \in {edge_list[k][1], edge_list[k][2]}}
\* the sum of the per-edge products over the edges incident to n
IncidentSum(n) ==
    SumRats([k \in IncidentEdges(n) |-> EdgeProduct(edge_list[k][1], edge_list[k][2])],
            IncidentEdges(n))
\* every edge has been processed
EdgesDone == mode \in {"JDC", "TEO"} /\ pc = "edge_final"

\* C18: in the edge-sum modes the final score of every node is the sum, over
\* its incident edges, of the per-edge product, each edge giving the same
\* amount to both of its endpoints; on a graph of 2 nodes and 1 edge both
\* nodes get equal scores.
C18_ScoreIsIncidentSum ==
    EdgesDone =>
        /\ \A n \in DOMAIN scores : scores[n] = IncidentSum(n)
        /\ (Len(graph.nodes) = 2 /\ Len(edge_list) = 1) =>
              scores[graph.nodes[1]] = scores[graph.nodes[2]]

\* JDC processed the edges A-A, A-B, B-C: the self-loop of A gave its
\* product 1/2 to A twice
C18_Witness ==
    /\ EdgesDone /\ mode = "JDC"
    /\ <<"A", "A">> \in Range(edge_list)
    /\ EdgeProduct("A", "A") = Half
    /\ IncidentSum("A") = Half
    /\ scores["A"] = ROne

\* p has no usable variance: its row holds fewer than 2 numbers, or the
\* numbers are all equal
FlatProfile(p) ==
    /\ gene_expression_data.some
    /\ p \in DOMAIN gene_expression_data.val.rows
    /\ LET row == gene_expression_data.val.rows[p]
       IN  \A j \in DOMAIN row, k \in DOMAIN row :
               (row[j] # NaN /\ row[k] # NaN) => row[j] = row[k]
\* the graph is the triangle A, B, C
IsTriangle ==
    /\ Range(graph.nodes) = {"A", "B", "C"}
    /\ \A n \in Range(graph.nodes) : neighbors(graph, n) = {"A", "B", "C"} \ {n}

\* C19: when the measurements of a protein are all equal or fewer than 2
\* paired points exist, every PCC involving it is 0 and so is every CEN
\* built from it, never an error or NaN; on a triangle whose nodes have equal
\* expression vectors all PCC and CEN values are 0, and the exponent-1 ECC
\* of each edge of a triangle is 1.
C19_FlatProfilesAreNeutral ==
    /\ InCall =>
        /\ \A key \in DOMAIN cache.pcc :
              (FlatProfile(key[1]) \/ FlatProfile(key[2])) => cache.pcc[key] = RZero
        /\ \A key \in DOMAIN cache.cen :
              (FlatProfile(key[1]) \/ FlatProfile(key[2])) => cache.cen[key] = RZero
    /\ (mode = "JDC" /\ IsTriangle) =>
        \A u \in Range(graph.nodes) :
            \A v \in neighbors(graph, u) : JDC_calculate_ecc(u, v) = ROne

\* TGSO computed the LSG scores of the triangle whose nodes all measure 0.1
\* at every time point: each PCC is 1 and each CEN is 2
C19_Witness ==
    /\ TgsoAt("total")
    /\ IsTriangle
    /\ \A n \in Range(graph.nodes) : FlatProfile(n)
    /\ \A key \in DOMAIN cache.pcc : cache.pcc[key] = ROne
    /\ \A key \in DOMAIN cache.cen : cache.cen[key] = RInt(2)

\* t: the nodes other than u and v adjacent to both
CommonNeighbourCount(u, v) ==
    Cardinality({w \in Range(graph.nodes) \ {u, v} :
                    Contains(graph.adj[u], w) /\ Contains(graph.adj[v], w)})
\* m = min(degree(u) - 1, degree(v) - 1)
MinDegreeMinusOne(u, v) ==
    LET du == degree(graph, u) - 1
        dv == degree(graph, v) - 1
    IN  IF du <= dv THEN du ELSE dv
\* 0 when m <= 0, t / m otherwise
EccExponent1(u, v) ==
    IF MinDegreeMinusOne(u, v) <= 0 THEN RZero
    ELSE Rat(CommonNeighbourCount(u, v), MinDegreeMinusOne(u, v))
\* 0 when m <= 0, t^3 / m otherwise
EccExponent3(u, v) ==
    LET t == CommonNeighbourCount(u, v)
    IN  IF MinDegreeMinusOne(u, v) <= 0 THEN RZero
        ELSE Rat(t * t * t, MinDegreeMinusOne(u, v))
\* the edge the next step of the edge loop processes
CurrentEdge == edge_list[edge_idx]

\* C20: with t the number of common neighbours of the endpoints of an edge
\* and m = min(degree(u) - 1, degree(v) - 1), ECC is 0 when m <= 0 and
\* otherwise t / m in JDC and t^3 / m in TEO: every coefficient JDC caches
\* is the exponent-1 value, and every contribution TEO adds to an endpoint
\* is the exponent-3 value times (GO similarity + PCC).
C20_EccPolicies ==
    /\ [](mode = "JDC" =>
            \A key \in DOMAIN edge_cache :
                edge_cache[key] = EccExponent1(key[1], key[2]))
    /\ [][(mode = "TEO" /\ pc = "edge") =>
            LET u == CurrentEdge[1]
                v == CurrentEdge[2]
                x == RMul(EccExponent3(u, v),
                          RAdd(TEO_get_go_similarity(u, v, go_term),
                               TEO_calculate_pcc(u, v)))
            IN  /\ scores'[u] = RAdd(scores[u], x)
                /\ scores'[v] = RAdd(scores[v], x)]_vars

\* TEO processed the edge A-B of the diamond, which has t = 2 and m = 2: A
\* got 8 / 2 = 4 times (GO similarity + PCC), where JDC's coefficient is 1
C20_Witness ==
    /\ mode = "TEO" /\ pc = "edge" /\ edge_idx = 2
    /\ edge_list[1] = <<"A", "B">>
    /\ CommonNeighbourCount("A", "B") = 2 /\ MinDegreeMinusOne("A", "B") = 2
    /\ EccExponent1("A", "B") = ROne
    /\ scores["A"] # RZero
    /\ scores["A"] = RMul(RInt(4), RAdd(TEO_get_go_similarity("A", "B", go_term),
                                        TEO_calculate_pcc("A", "B")))

(***************************************************************************)
(* The LSG aggregation, its weights and its caches.                        *)
(***************************************************************************)
\* the nodes adjacent to u, read from the adjacency lists
Adjacent(u) == {w \in Range(graph.nodes) : Contains(graph.adj[u], w)}
\* (number of common neighbours + 1) / min(degree(u), degree(v)), 0 when the
\* minimum degree is 0
RefAdn(u, v) ==
    LET du == degree(graph, u)
        dv == degree(graph, v)
        m == IF du <= dv THEN du ELSE dv
    IN  IF m = 0 THEN RZero
        ELSE Rat(Cardinality(Adjacent(u) \cap Adjacent(v)) + 1, m)
\* PCC(u, v) + SUM over the common neighbours w of PCC(u, w) * PCC(v, w)
RefCen(u, v) ==
    RAdd(TGSO_calculate_pcc(u, v),
         SumRats([w \in Adjacent(u) \cap Adjacent(v) |->
                     RMul(TGSO_calculate_pcc(u, w), TGSO_calculate_pcc(v, w))],
                 Adjacent(u) \cap Adjacent(v)))
\* SUM over the edges (u, v) incident to u of ADN * (CLN + CEN)
RefLsg(u) ==
    SumRats([v \in Adjacent(u) |->
                RMul(RefAdn(u, v), RAdd(TGSO_calculate_cln(u, v), RefCen(u, v)))],
            Adjacent(u))

\* C21: the LSG of every node that the propagation uses is the sum, over the
\* edges incident to the node, of ADN(u,v) * (CLN(u,v) + CEN(u,v)), with
\* ADN(u,v) = (number of common neighbours + 1) / min(degree(u), degree(v))
\* and 0 when that minimum is 0.
C21_LsgIsIncidentSum ==
    TgsoAt("total") => \A u \in Range(graph.nodes) : lsg_scores[u] = RefLsg(u)

\* the LSG scores are complete with both stores loaded: the LSG of a node
\* with two or more edges is not 0, with a non-zero CLN and a non-zero CEN
C21_Witness ==
    /\ TgsoAt("total")
    /\ gene_expression_data.some /\ localization_data.some
    /\ \E u \in Range(graph.nodes) :
          /\ Cardinality(Adjacent(u)) >= 2
          /\ lsg_scores[u] # RZero
          /\ \E v \in Adjacent(u) : TGSO_calculate_cln(u, v) # RZero
          /\ \E v \in Adjacent(u) : RefCen(u, v) # RZero

\* the protein-label assignments of the loaded localization table
LabelledProteins == IF localization_data.some THEN DOMAIN localization_data.val ELSE {}
LabelsOf(p) == IF p \in LabelledProteins THEN localization_data.val[p] ELSE {}
AllLabels == UNION {LabelsOf(p) : p \in LabelledProteins}
Carriers(l) == {p \in LabelledProteins : l \in LabelsOf(p)}
Assignments == SumInts([p \in LabelledProteins |-> Cardinality(LabelsOf(p))], LabelledProteins)
LocLoaded == mode = "TGSO" /\ localization_data.some /\ Assignments > 0

\* C22: the location prior of every label is the number of proteins that
\* carry it divided by the number of protein-label assignments, and the
\* S-score of a protein of the graph is the sum of the priors of its labels.
C22_PriorIsShareOfAssignments ==
    LocLoaded =>
        /\ \A l \in AllLabels :
              DictGet(sub_scores, l, RZero) = Rat(Cardinality(Carriers(l)), Assignments)
        /\ \A p \in Range(graph.nodes) :
              DictGet(s_scores, p, RZero)
                = SumRats([l \in LabelsOf(p) |-> Rat(Cardinality(Carriers(l)), Assignments)],
                          LabelsOf(p))
\* a protein with two labels has been loaded and scored
C22_Witness ==
    /\ LocLoaded
    /\ \E p \in LabelledProteins \cap Range(graph.nodes) :
          /\ Cardinality(LabelsOf(p)) = 2
          /\ p \in DOMAIN s_scores
          /\ s_scores[p] = SumRats([l \in LabelsOf(p) |-> DictGet(sub_scores, l, RZero)],
                                   LabelsOf(p))

\* C23: once an assignment is loaded the priors sum to 1, every label of
\* the table has a prior, and a protein without labels has S-score 0.
PriorsSumToOne == SumRats(sub_scores, DOMAIN sub_scores) = ROne
UnlabelledScoreZero ==
    \A p \in Range(graph.nodes) : LabelsOf(p) = {} => DictGet(s_scores, p, RZero) = RZero
C23_PriorsCoverLabels ==
    LocLoaded =>
        /\ PriorsSumToOne
        /\ \A l \in AllLabels : l \in DOMAIN sub_scores
        /\ UnlabelledScoreZero
\* the two parts that the loader does keep
C23_SumAndUnlabelled == LocLoaded => PriorsSumToOne /\ UnlabelledScoreZero
C23_Witness ==
    /\ LocLoaded
    /\ localization_data.val = LoadLocRows(LocSecond, Len(LocSecond)).dict
    /\ \E p \in Range(graph.nodes) : LabelsOf(p) = {}
    /\ \E p \in Range(graph.nodes) : DictGet(s_scores, p, RZero) # RZero

\* the measurement columns of the loaded table and the paired points of two
\* rows among them
MeasurementCols ==
    {c \in 1..Len(gene_expression_data.val.cols) :
        Lower(gene_expression_data.val.cols[c]) \notin {"mean", "std"}}
HasSummaryCols ==
    gene_expression_data.some
        /\ Cardinality(MeasurementCols) < Len(gene_expression_data.val.cols)
MeasuredPairs(u, v) ==
    {c \in MeasurementCols : gene_expression_data.val.rows[u][c] # NaN
                                /\ gene_expression_data.val.rows[v][c] # NaN}
HasRows(u, v) ==
    /\ gene_expression_data.some
    /\ u \in DOMAIN gene_expression_data.val.rows
    /\ v \in DOMAIN gene_expression_data.val.rows
\* the correlations of TGSO and TEO over the measurement columns only
RefTgsoPcc(u, v) ==
    IF ~HasRows(u, v) THEN RZero
    ELSE LET du == gene_expression_data.val.rows[u]
             dv == gene_expression_data.val.rows[v]
             mask == MeasuredPairs(u, v)
         IN  IF Cardinality(mask) <= 1 \/ StdIsZero(du, mask) \/ StdIsZero(dv, mask)
             THEN RZero
             ELSE RAbs(corrcoef(du, dv, mask))
RefTeoPcc(u, v) ==
    IF ~HasRows(u, v) THEN RZero
    ELSE LET du == gene_expression_data.val.rows[u]
             dv == gene_expression_data.val.rows[v]
             mask == MeasuredPairs(u, v)
         IN  IF Cardinality(mask) < 2 \/ Sxy(du, du, mask) = 0 \/ Sxy(dv, dv, mask) = 0
             THEN RZero
             ELSE Pearson(du, dv, mask)
\* the active points of a row from which the summary cells are cut off
RefActivePoints(p) ==
    LET row == gene_expression_data.val.rows[p]
        cut == SelectSeq([c \in 1..Len(row) |-> c], LAMBDA c : c \in MeasurementCols)
        cells == [t \in 1..Len(cut) |-> row[cut[t]]]
    IN  ActivePoints(cells, [t \in 1..Len(cells) |-> t])
TgsoPccFromMeasurements ==
    mode = "TGSO" /\ InCall =>
        \A k \in DOMAIN cache.pcc : cache.pcc[k] = RefTgsoPcc(k[1], k[2])
TeoPccFromMeasurements ==
    mode = "TEO" /\ pc \in {"edge", "edge_final"} =>
        \A k \in DOMAIN edge_cache : edge_cache[k] = RefTeoPcc(k[1], k[2])
JdcProfileFromMeasurements ==
    mode = "JDC" /\ pc \in {"edge", "edge_final"} =>
        \A p \in DOMAIN active_profile : active_profile[p] = RefActivePoints(p)

\* C24: the summary columns mean and std are never measurement points: the
\* PCC of TGSO and of TEO and the active points of JDC are those of the
\* measurement columns alone.
C24_SummaryColumnsExcluded ==
    /\ TgsoPccFromMeasurements
    /\ TeoPccFromMeasurements
    /\ JdcProfileFromMeasurements
\* a correlation has been cached from a table with summary columns
C24_Witness ==
    /\ HasSummaryCols
    /\ \/ mode = "TGSO" /\ InCall /\ DOMAIN cache.pcc # {}
       \/ mode = "TEO" /\ pc = "edge_final" /\ DOMAIN edge_cache # {}

\* two cache keys that name the same undirected edge
SameEnds(k1, k2) == {k1[1], k1[2]} = {k2[1], k2[2]}
EdgeFeatures == {"adn", "cln", "cen"}
\* the keys of a feature cache that the step has filled
Filled(f) == DOMAIN cache'[f] \ DOMAIN cache[f]

\* C25: within one call every edge weight ADN, CLN and CEN is computed at
\* most once per undirected edge: a step of the LSG stage fills a key only
\* if no key of the same edge is in the cache, and no two keys of a cache
\* name the same edge.
C25_OncePerEdge ==
    [][mode = "TGSO" /\ pc = "lsg" =>
        \A f \in EdgeFeatures :
            /\ \A new \in Filled(f) : \A old \in DOMAIN cache[f] : ~SameEnds(new, old)
            /\ \A k1 \in DOMAIN cache'[f] : \A k2 \in DOMAIN cache'[f] :
                  SameEnds(k1, k2) => k1 = k2]_vars
\* the LSG stage of a triangle is over: every edge was visited from both
\* endpoints and each cache holds one key per edge
C25_Witness ==
    /\ TgsoAt("total")
    /\ Len(edges(graph)) >= 3
    /\ \A f \in EdgeFeatures : Cardinality(DOMAIN cache[f]) = Len(edges(graph))

\* the loaded graph without its self-loops
Simple == remove_selfloops(graph)
HasSelfLoop == \E u \in Range(graph.nodes) : Contains(graph.adj[u], u)
SameTopology ==
    \A u \in Range(graph.nodes) :
        /\ degree(graph, u) = degree(Simple, u)
        /\ neighbors(graph, u) = neighbors(Simple, u)
        /\ \A v \in Range(graph.nodes) :
              Cardinality(neighbors(graph, u) \cap neighbors(graph, v))
                = Cardinality(neighbors(Simple, u) \cap neighbors(Simple, v))

\* C26: a self-loop row of the PPI table changes no degree, no neighbour
\* set and no common-neighbour count, in JDC, TEO and TGSO alike.
C26_SelfLoopsHaveNoEffect == SameTopology
\* the part that holds: TEO drops the self-loops when it builds its graph
C26_TeoDropsSelfLoops == mode = "TEO" => SameTopology /\ ~HasSelfLoop
\* TEO has ranked a table that holds the row A-A
C26_Witness ==
    /\ mode = "TEO" /\ pc = "done" /\ results.some
    /\ go_similarity_data.some
    /\ <<"A", "A">> \in DOMAIN go_similarity_data.val
    /\ "A" \in Range(graph.nodes)
\* JDC and TGSO keep the row: A is its own neighbour
C26_SelfLoopKept ==
    /\ mode \in {"JDC", "TGSO"}
    /\ HasSelfLoop
    /\ pc = "done" /\ results.some

\* the neighbour loop of _calculate_lsg over the neighbours in the order ns
RECURSIVE LsgLoopOver(_, _, _, _)
LsgLoopOver(node, ns, k, c) ==
    IF k = 0 THEN [score |-> RZero, cache |-> c]
    ELSE LsgStep(node, ns[k], LsgLoopOver(node, ns, k - 1, c))
\* no entry of a weight cache is dropped or replaced by the step
NeverOverwritten ==
    \A f \in EdgeFeatures \cup {"pcc"} :
        \A k \in DOMAIN cache[f] : k \in DOMAIN cache'[f] /\ cache'[f][k] = cache[f][k]
\* every cached weight is the value either endpoint would compute for it
SameFromEitherEnd ==
    /\ \A k \in DOMAIN cache.adn :
          /\ cache.adn[k] = TGSO_calculate_adn(k[1], k[2])
          /\ cache.adn[k] = TGSO_calculate_adn(k[2], k[1])
    /\ \A k \in DOMAIN cache.cln :
          /\ cache.cln[k] = TGSO_calculate_cln(k[1], k[2])
          /\ cache.cln[k] = TGSO_calculate_cln(k[2], k[1])
    /\ \A k \in DOMAIN cache.cen :
          /\ cache.cen[k] = TGSO_calculate_cen(k[1], k[2], EmptyDict).val
          /\ cache.cen[k] = TGSO_calculate_cen(k[2], k[1], EmptyDict).val
    /\ \A k \in DOMAIN cache.pcc :
          /\ cache.pcc[k] = TGSO_calculate_pcc(k[1], k[2])
          /\ cache.pcc[k] = TGSO_calculate_pcc(k[2], k[1])
\* the stored LSG of every node is the sum of its neighbour loop run alone,
\* on an empty cache, in any order of the neighbours
OrderFree ==
    \A u \in DOMAIN cache.lsg :
        \A ns \in Perms(neighbors(graph, u)) :
            /\ cache.lsg[u] = LsgLoopOver(u, ns, Len(ns), EmptyCache).score
            /\ lsg_scores[u] = cache.lsg[u]

\* C27: the LSG vector does not depend on the order in which nodes and
\* neighbours are visited: throughout the LSG stage and at its end a cached
\* weight is the value either endpoint computes, no step replaces a cached
\* entry, and each LSG equals the sum taken in any neighbour order without
\* a cache.
C27_OrderIndependent ==
    [][mode = "TGSO" /\ pc \in {"lsg", "total"} =>
        NeverOverwritten /\ SameFromEitherEnd /\ OrderFree]_vars
\* the last node of a diamond has been summed: all of its edge weights
\* were filled from the other endpoint, some of them non-zero
C27_Witness ==
    /\ TgsoAt("total")
    /\ Len(edges(graph)) >= 4
    /\ gene_expression_data.some
    /\ \E k \in DOMAIN cache.cen : cache.cen[k] # RZero
    /\ \E u \in DOMAIN cache.lsg : Cardinality(neighbors(graph, u)) = 3 /\ cache.lsg[u] # RZero

\* the legacy loop agrees with the finished modern loop of the state
LegacyAgrees ==
    LET r == Legacy_calculate_P
    IN  /\ ~r.raised
        /\ r.iter_time = iter_time
        /\ \A n \in Range(graph.nodes) : DictGet(r.P, n, RZero) = P[n]

\* C28: on the same graph, LSG vector, P0, alpha, max_iter and tol the
\* legacy calculate_P and the modern calculate perform the same number of
\* rounds and end with the same score for every node.
C28_LegacyEquivalent == TgsoAt("final") => LegacyAgrees
\* without a round the two agree: both return P0 after 0 rounds
C28_Witness ==
    /\ TgsoAt("final")
    /\ max_iter = 0
    /\ Len(edges(graph)) >= 1
    /\ LegacyAgrees
    /\ \E n \in Range(graph.nodes) : P[n] # RZero
\* the two also agree on some input after at least one round
C28_AgreeAfterRound == TgsoAt("final") /\ iter_time >= 1 /\ LegacyAgrees
\* with at least one round on a graph with edges, LSG and a non-zero prior
C28_DifferAfterRound ==
    /\ TgsoAt("final") /\ iter_time >= 1
    /\ Len(edges(graph)) >= 1 /\ total_lsg # RZero
    /\ \E n \in Range(graph.nodes) : P0[n] # RZero
    /\ alpha # RZero
    /\ ~LegacyAgrees

\* a step of the propagation loop: a round begins, a node is updated, the
\* convergence is checked or the loop is found exhausted
InPropagation == mode = "TGSO" /\ pc \in {"loop", "node", "check"}
\* what the rounds read and must leave alone
propagationInputs ==
    <<P0, lsg_scores, total_lsg, total_lsg_norm, cache, nodes, graph, orthology_data,
      alpha, max_iter, tol>>

\* C29: the propagation rounds change only the score vectors and the round
\* counters: no step of the loop changes P0, the LSG vector, the LSG total
\* and its normalizer, the weight caches, the graph or the orthology store,
\* and P0 is still the prior read from the store.
C29_PropagationFrame ==
    [][InPropagation =>
        /\ UNCHANGED propagationInputs
        /\ P0' = TGSO_calculate_initial_vector_p0]_vars
\* two rounds are over, they moved a score away from its non-zero prior and
\* the weight caches are filled
C29_Witness ==
    /\ TgsoAt("final")
    /\ iter_time = 2
    /\ \E n \in Range(graph.nodes) : P[n] # P0[n] /\ P0[n] # RZero
    /\ DOMAIN cache.adn # {}
    /\ total_lsg # RZero

\* x >= 0 as the floats compare: false for nan
NonNeg(x) == RLe(RZero, x)
PriorsNonNeg ==
    /\ orthology_data.some
    /\ \A p \in DOMAIN orthology_data.val : NonNeg(orthology_data.val[p])
    /\ NonNeg(alpha) /\ RLe(alpha, ROne)
PriorsFinite == \A p \in DOMAIN orthology_data.val : IsFinite(orthology_data.val[p])
\* every weight, LSG, PCIN and score the call holds, and every ranked score
AllNonNegative ==
    /\ InCall =>
        /\ \A f \in EdgeFeatures \cup {"pcc", "lsg"} :
              \A k \in DOMAIN cache[f] : NonNeg(cache[f][k])
        /\ \A n \in DOMAIN lsg_scores : NonNeg(lsg_scores[n])
        /\ \A n \in DOMAIN P_new : NonNeg(P_new[n])
    /\ (mode = "TGSO" /\ pc \in {"loop", "node", "check", "final"}) =>
        /\ \A n \in DOMAIN P : NonNeg(P[n])
        /\ \A a \in Range(nodes) : \A b \in Range(nodes) : NonNeg(Pcin(a, b))
    /\ (mode = "TGSO" /\ results.some) =>
        \A k \in 1..Len(results.val.rows) : NonNeg(results.val.rows[k][2])

\* C30 as stated: with every orthology prior >= 0 and 0 <= alpha <= 1 no
\* edge weight, LSG, PCIN, score of a round or final score is negative or
\* undefined.
C30_NonNegativeAnyPrior == PriorsNonNeg => AllNonNegative
\* C30: with every orthology prior finite and >= 0 and 0 <= alpha <= 1,
\* every edge weight (ADN, CLN, CEN, PCC), every LSG, every PCIN(i, j), every
\* score of every round and every ranked score is >= 0.
C30_NonNegative == (PriorsNonNeg /\ PriorsFinite) => AllNonNegative
\* a round has produced positive scores from positive weights
C30_Witness ==
    /\ TgsoAt("final") /\ iter_time >= 1
    /\ PriorsNonNeg /\ PriorsFinite
    /\ alpha = Half
    /\ total_lsg # RZero
    /\ \E k \in DOMAIN cache.cen : cache.cen[k] # RZero
    /\ \E n \in DOMAIN P : P[n] # RZero /\ P[n] # P0[n]

====
